---- MODULE Spec2Model ----
(***************************************************************************)
(* Model of the Oktabot production pipeline orchestrator (src/producer.py) *)
(* with the utilities it relies on (src/utils/common.py,                   *)
(* src/utils/pre_editor_validator.py).  One project directory is modelled; *)
(* the orchestrator process is started repeatedly on it, and between two   *)
(* processes the operator may alter the files of the project.              *)
(***************************************************************************)
EXTENDS Integers, Sequences, FiniteSets, TLC

(* ------------------------------ bounds --------------------------------- *)
\* number of orchestrator processes started on the project
MaxRuns == 2
\* file contents are versions 0..MaxVersion (0 is a zero-byte file)
MaxVersion == 2
\* number of alterations the operator makes between runs
MaxTamper == 1
\* number of write_json calls that fail over a behaviour
MaxWriteFail == 1
\* largest max_retries a retry policy of the configuration sets
MaxRetriesCap == 3
\* largest number of keys of a dict handed to write_json
MaxEntries == 2
\* largest requests_per_minute of a RateLimiter
MaxRpm == 2
\* calls of wait_if_needed made on the RateLimiter
MaxCalls == 3
\* the clock advances in steps of Quantum seconds, MaxTicks times
Quantum == 10
MaxTicks == 8

(* --------------------------- fixed vocabulary --------------------------- *)
\* producer.py: the step names passed to is_step_complete / complete_step
Steps == <<"scriptwriting", "direction", "asset_production", "editing", "upload">>

StepNames == {Steps[i] : i \in 1..Len(Steps)}

\* the external stage programs, in the order run_pipeline launches them
Stages == {"scriptwriter", "director", "narrator", "image_director", "editor", "uploader"}

\* the stage programs each step launches
StagesOf(step) ==
    CASE step = "scriptwriting"    -> {"scriptwriter"}
      [] step = "direction"        -> {"director"}
      [] step = "asset_production" -> {"narrator", "image_director"}
      [] step = "editing"          -> {"editor"}
      [] step = "upload"           -> {"uploader"}

\* segment ids a plan may name
Segments == {"seg1", "seg2"}

\* a path is <<folder, stem, extension>>, os.path.join(folder, stem.ext)
script_path == <<".", "script", "txt">>
project_file_path == <<".", "project", "json">>
final_video_path == <<".", "final_video", "mp4">>
audio_folder == "audio"
image_folder == "images"

AudioPath(seg) == <<audio_folder, seg, "wav">>
ImagePath(seg) == <<image_folder, seg, "png">>

AudioPaths == {AudioPath(s) : s \in Segments}
ImagePaths == {ImagePath(s) : s \in Segments}
Paths == {script_path, project_file_path, final_video_path} \cup AudioPaths \cup ImagePaths

\* content of a file that does not exist
Absent == -1
Contents == 0..MaxVersion

(* ------------------------------ helpers -------------------------------- *)
Range(seq) == {seq[i] : i \in 1..Len(seq)}

IsPrefix(s, t) == Len(s) <= Len(t) /\ \A i \in 1..Len(s) : s[i] = t[i]

NoDuplicates(seq) == \A i, j \in 1..Len(seq) : seq[i] = seq[j] => i = j

(* ------------------------------ the plan -------------------------------- *)
\* project.json version 0 lacks a required top-level key; every other version
\* is well formed.  Version 1 has one segment, later versions have two.
PlanWellFormed(c) == c >= 1

PlanSegments(c) == IF c = 1 THEN <<"seg1">> ELSE <<"seg1", "seg2">>

(* --------------------------- AssetVerifier ------------------------------ *)
NoHash == <<"None", 0>>
NoEntry == <<"no entry", 0>>

\* hashlib.sha256 over the bytes of the file: distinct contents, distinct digests
Sha256(c) == <<"sha256", c>>

calculate_file_hash(fs, path) ==
    IF fs[path] = Absent THEN NoHash ELSE Sha256(fs[path])

verify_audio_file(fs, path) ==
    IF fs[path] = Absent THEN [valid |-> FALSE, message |-> "Audio file not found"]
    ELSE IF fs[path] < 1 THEN [valid |-> FALSE, message |-> "Audio file too small"]
    ELSE [valid |-> TRUE, message |-> "Valid audio file"]

verify_image_file(fs, path) ==
    IF fs[path] = Absent THEN [valid |-> FALSE, message |-> "Image file not found"]
    ELSE IF fs[path] < 1 THEN [valid |-> FALSE, message |-> "Image too small"]
    ELSE [valid |-> TRUE, message |-> "Valid image file"]

(* -------------------------- AtomicFileWriter ---------------------------- *)
\* a JSON file of the project: exists or not, and what it holds
JsonFile(data) == [exists |-> TRUE, data |-> data]

NoJsonFile(blank) == [exists |-> FALSE, data |-> blank]

\* what the filesystem lets write_json do: every operation succeeds; an
\* exception before the destination is removed (open, json.dump, os.remove);
\* an exception in os.rename after the destination was removed; and the
\* process terminated inside write_json, before os.remove or after it
WriteOutcomes ==
    {"ok", "fail_before_remove", "fail_at_rename",
     "killed_before_remove", "killed_after_remove"}

\* the outcomes that end the process
KillOutcomes == {"killed_before_remove", "killed_after_remove"}

\* the destination after write_json(file_path, data)
write_json(cur, data, outcome, blank) ==
    CASE outcome = "ok"                   -> JsonFile(data)
      [] outcome = "fail_before_remove"   -> cur
      [] outcome = "fail_at_rename"       -> NoJsonFile(blank)
      [] outcome = "killed_before_remove" -> cur
      [] outcome = "killed_after_remove"  -> NoJsonFile(blank)

\* read_json(file_path) or default
read_json_or(cur, default) == IF cur.exists THEN cur.data ELSE default

EmptySteps == << >>

EmptyHashes == [p \in Paths |-> NoEntry]

(* ------------------------ json.dump and json.load ----------------------- *)
\* A Python value is <<type, items>>: a str or an int with its text as the one
\* item, a list or a tuple with its elements.  A dict key is <<type, text>>.
\* A dict is the sequence of its <<key, value>> entries, keys distinct.
PyKeys == {<<"str", "a">>, <<"str", "1">>, <<"int", "1">>}

PyValues ==
    {<<"str", <<"x">>>>, <<"int", <<"7">>>>, <<"list", <<"x", "y">>>>,
     <<"tuple", <<"x", "y">>>>}

PyEntries == PyKeys \X PyValues

PyDicts ==
    {d \in UNION {[1..n -> PyEntries] : n \in 0..MaxEntries} :
        \A i, j \in 1..Len(d) : d[i][1] = d[j][1] => i = j}

\* == on two dicts: the same keys with equal values, in any order
DeepEqual(a, b) == Range(a) = Range(b)

\* a JSON document is the sequence of its members <<name, <<kind, items>>>>
\* json.dump writes a key that is not a str as the text of its value
JsonKey(k) == k[2]

\* slip: json.dump(..., default=str) style, every scalar is written as a string
JsonValue_stringify(v) ==
    CASE v[1] \in {"str", "int"}     -> <<"string", v[2]>>
      [] v[1] \in {"list", "tuple"} -> <<"array", v[2]>>

\* json.dump writes a list and a tuple alike, as an array
JsonValue(v) ==
    CASE v[1] = "str"               -> <<"string", v[2]>>
      [] v[1] = "int"               -> <<"number", v[2]>>
      [] v[1] \in {"list", "tuple"} -> <<"array", v[2]>>

json_dump(d) == [i \in 1..Len(d) |-> <<JsonKey(d[i][1]), JsonValue(d[i][2])>>]

PyValueOf(jv) ==
    CASE jv[1] = "string" -> <<"str", jv[2]>>
      [] jv[1] = "number" -> <<"int", jv[2]>>
      [] jv[1] = "array"  -> <<"list", jv[2]>>

\* json.load: every name is a str key; of two members of one name the later wins
RECURSIVE json_load(_)
json_load(doc) ==
    IF doc = << >> THEN << >>
    ELSE LET rest == json_load(Tail(doc))
             k == <<"str", Head(doc)[1]>>
         IN  IF \E i \in 1..Len(rest) : rest[i][1] = k
             THEN rest
             ELSE << <<k, PyValueOf(Head(doc)[2])>> >> \o rest

\* a file on disk: its JSON text, whole or cut off in the middle
WholeFile(doc) == [exists |-> TRUE, whole |-> TRUE, text |-> doc]

PartialFile == [exists |-> TRUE, whole |-> FALSE, text |-> << >>]

NoFile == [exists |-> FALSE, whole |-> FALSE, text |-> << >>]

\* the result of read_json: None, or the value loaded
NoneResult == [none |-> TRUE, value |-> << >>]

read_json(file) ==
    IF ~file.exists THEN NoneResult
    ELSE IF ~file.whole THEN NoneResult
    ELSE [none |-> FALSE, value |-> json_load(file.text)]

\* dicts with str keys and no tuple: what json.load can return
JsonNative(d) ==
    \A i \in 1..Len(d) : d[i][1][1] = "str" /\ d[i][2][1] # "tuple"

(* ------------------------------ RateLimiter ----------------------------- *)
\* threads of a stage that share one RateLimiter
Threads == {"t1", "t2"}

\* time.time() when the RateLimiter is constructed
ConstructionTime == 100

\* the length of the counting window, in seconds
WindowSeconds == 60

\* cooldown_seconds of the configuration
CooldownChoices == {0, Quantum, 3 * Quantum}

\* slip: the lock is not taken
LockFree_always(holder) == TRUE

\* with self._lock: the lock can be taken
LockFree(holder) == holder = "none"

\* current_time - self.minute_start >= 60
WindowOver(now, start) == now - start >= WindowSeconds

\* slip: the cap is compared with > and one request more is let through
CapReached_off_by_one(count, cap) == count > cap

\* self.request_count >= self.requests_per_minute
CapReached(count, cap) == count >= cap

\* wait_time = 60 - (current_time - self.minute_start)
WindowWait(now, start) == WindowSeconds - (now - start)

\* slip: the cooldown sleep is left out
CooldownWait_none(cooldown, time_since_last) == 0

\* the sleep that enforces the cooldown, 0 when none is needed
CooldownWait(cooldown, time_since_last) ==
    IF time_since_last < cooldown THEN cooldown - time_since_last ELSE 0

(* ----------------------- ErrorType, ErrorClassifier --------------------- *)
ErrorType == {"quota", "network", "disk", "config", "code_bug", "system"}

\* Python strings are TLA+ strings: Len, SubSeq and \o work on them
\* k in s
Contains(s, k) == \E i \in 1..(Len(s) - Len(k) + 1) : SubSeq(s, i, i + Len(k) - 1) = k

UpperCase == "ABCDEFGHIJKLMNOPQRSTUVWXYZ"
LowerCase == "abcdefghijklmnopqrstuvwxyz"

LowerChar(c) ==
    IF \E i \in 1..Len(UpperCase) : SubSeq(UpperCase, i, i) = c
    THEN LET i == CHOOSE i \in 1..Len(UpperCase) : SubSeq(UpperCase, i, i) = c
         IN  SubSeq(LowerCase, i, i)
    ELSE c

\* s.lower(): every character lowered, computed by halves
RECURSIVE str_lower(_)
str_lower(s) ==
    IF Len(s) = 0 THEN ""
    ELSE IF Len(s) = 1 THEN LowerChar(s)
    ELSE LET half == Len(s) \div 2
         IN  str_lower(SubSeq(s, 1, half)) \o str_lower(SubSeq(s, half + 1, Len(s)))

\* ' '.join(seq)
RECURSIVE Join(_)
Join(seq) ==
    IF seq = << >> THEN ""
    ELSE IF Len(seq) = 1 THEN seq[1]
    ELSE seq[1] \o " " \o Join(Tail(seq))

\* config.get("quota_errors", [...]): the default list, or the list of the configuration
DefaultQuotaKeywords ==
    {"quota", "rate limit", "429", "too many requests", "resource exhausted"}

QuotaKeywordChoices == {DefaultQuotaKeywords, {"limit exceeded"}}

network_keywords == {"connection", "timeout", "network", "dns", "ssl", "certificate"}

disk_keywords == {"no space", "disk full", "permission denied", "file not found"}

system_keywords == {"memory", "ram", "cpu", "system", "os error"}

\* any(keyword in error_str for keyword in keywords)
AnyKeyword(keywords, error_str) == \E keyword \in keywords : Contains(error_str, keyword)

\* exception classes and the class each derives from (IOError is OSError;
\* KeyError derives from Exception through LookupError)
ExceptionTypes ==
    {"Exception", "OSError", "ConnectionError", "ConnectionResetError", "TimeoutError",
     "PermissionError", "FileNotFoundError", "MemoryError", "KeyError", "ValueError",
     "JSONDecodeError", "TypeError", "RuntimeError"}

BaseOf(cls) ==
    CASE cls \in {"ConnectionError", "TimeoutError", "PermissionError", "FileNotFoundError"}
             -> "OSError"
      [] cls = "ConnectionResetError" -> "ConnectionError"
      [] cls = "JSONDecodeError"      -> "ValueError"
      [] OTHER                        -> "Exception"

RECURSIVE Mro(_)
Mro(cls) == IF cls = "Exception" THEN {"Exception"} ELSE {cls} \cup Mro(BaseOf(cls))

issubclass(cls, classinfo) == Mro(cls) \cap classinfo # {}

\* exception_type = None
NoType == "None"

\* slip: the disk keywords are tested before the network keywords
classify_error_disk_first(quota, error_message, exception_type) ==
    LET error_str == str_lower(error_message)
    IN  IF AnyKeyword(quota, error_str) THEN "quota"
        ELSE IF AnyKeyword(disk_keywords, error_str) THEN "disk"
        ELSE IF AnyKeyword(network_keywords, error_str) THEN "network"
        ELSE IF AnyKeyword(system_keywords, error_str) THEN "system"
        ELSE "code_bug"

classify_error(quota, error_message, exception_type) ==
    LET error_str == str_lower(error_message)
    IN  IF AnyKeyword(quota, error_str) THEN "quota"
        ELSE IF AnyKeyword(network_keywords, error_str) THEN "network"
        ELSE IF AnyKeyword(disk_keywords, error_str) THEN "disk"
        ELSE IF AnyKeyword(system_keywords, error_str) THEN "system"
        ELSE IF exception_type = NoType THEN "code_bug"
        ELSE IF issubclass(exception_type, {"ConnectionError", "TimeoutError"}) THEN "network"
        ELSE IF issubclass(exception_type, {"OSError", "PermissionError"}) THEN "disk"
        ELSE IF issubclass(exception_type, {"MemoryError"}) THEN "system"
        ELSE IF issubclass(exception_type, {"FileNotFoundError", "JSONDecodeError", "KeyError",
                                            "ValueError", "TypeError"}) THEN "config"
        ELSE "code_bug"

\* slip: CONFIG is taken for a transient error
is_retryable_config_too(error_type) ==
    error_type \in {"quota", "network", "disk", "system", "config"}

is_retryable(error_type) == error_type \in {"quota", "network", "disk", "system"}

RetryableTypes == {t \in ErrorType : is_retryable(t)}

(* ------------------------------ RetryHandler ---------------------------- *)
\* the defaults of policy.get("max_retries", 3), policy.get("base_delay_seconds", 30)
DefaultMaxRetries == 3
DefaultBaseDelay == 30

\* the empty policy {}: every key takes its default
EmptyPolicy ==
    [present |-> FALSE, max_retries |-> DefaultMaxRetries,
     base_delay_seconds |-> DefaultBaseDelay, exponential_backoff |-> TRUE]

\* base_delay_seconds of the policies the configuration sets
BaseDelay == 2

\* a policy {} that is present under its key: every field takes its default
DefaultsPolicy == [EmptyPolicy EXCEPT !.present = TRUE]

\* what retry_policies may hold under "<type>_errors": nothing, {}, or a policy
\* (max_retries of 0 is what an operator writes to switch retries off)
PolicyChoices ==
    {EmptyPolicy, DefaultsPolicy} \cup
    [present : {TRUE}, max_retries : 0..MaxRetriesCap,
     base_delay_seconds : {BaseDelay}, exponential_backoff : BOOLEAN]

\* retry_policies.get(policy_name, retry_policies.get("system_errors", {}))
PolicyOf(policies, error_type) ==
    IF policies[error_type].present THEN policies[error_type]
    ELSE IF policies["system"].present THEN policies["system"]
    ELSE EmptyPolicy

_get_max_retries(policies, error_type) == PolicyOf(policies, error_type).max_retries

\* slip: the exponent counts attempts from one
_calculate_wait_time_one_based(policies, error_type, attempt_no) ==
    LET policy == PolicyOf(policies, error_type)
    IN  IF policy.exponential_backoff
        THEN policy.base_delay_seconds * (2 ^ (attempt_no + 1))
        ELSE policy.base_delay_seconds

_calculate_wait_time(policies, error_type, attempt_no) ==
    LET policy == PolicyOf(policies, error_type)
    IN  IF policy.exponential_backoff
        THEN policy.base_delay_seconds * (2 ^ attempt_no)
        ELSE policy.base_delay_seconds

\* the backoff schedule of an error type for attempts 0 .. n-1
BackoffSchedule(policies, error_type, n) ==
    [i \in 1..n |-> _calculate_wait_time(policies, error_type, i - 1)]

\* what one call of func does: it returns, or raises an error of a type
CallOutcomes == {"ok"} \cup ErrorType

(* ------------------ a stage command that times out ---------------------- *)
\* the projects the orchestrator is run on
Projects ==
    {[channel |-> "History", topic |-> "Rome", chars |-> "1500",
      path |-> "channels/history/Rome"],
     [channel |-> "Tech", topic |-> "Computer networks", chars |-> "1500",
      path |-> "channels/tech/Computer_networks"]}

\* os.path.join(self.project_path, name)
ProjectFile(project, name) == project.path \o "/" \o name

\* the command list run_pipeline builds for a stage
StageCommand(stage, project) ==
    CASE stage = "scriptwriter" ->
            <<"python", "modules/scriptwriter.py", project.channel, project.topic,
              project.chars, "--output_path", ProjectFile(project, "script.txt"),
              "--config_path", "config.json">>
      [] stage = "director" ->
            <<"python", "modules/director.py", ProjectFile(project, "script.txt"),
              ProjectFile(project, "project.json"), "--channel_name", project.channel,
              "--config_path", "config.json">>
      [] stage = "narrator" ->
            <<"python", "modules/narrator.py", ProjectFile(project, "project.json"),
              ProjectFile(project, "audio"), "--config_path", "config.json">>
      [] stage = "image_director" ->
            <<"python", "modules/image_director.py", ProjectFile(project, "project.json"),
              ProjectFile(project, "images"), "--config_path", "config.json">>
      [] stage = "editor" ->
            <<"python", "modules/editor.py", ProjectFile(project, "project.json"),
              ProjectFile(project, "audio"), ProjectFile(project, "images"),
              ProjectFile(project, "final_video.mp4"), "--config_path", "config.json">>
      [] stage = "uploader" ->
            <<"python", "modules/uploader.py", ProjectFile(project, "final_video.mp4"),
              ProjectFile(project, "project.json")>>

\* safe_subprocess_run when subprocess.run raises TimeoutExpired on every
\* attempt: the error text it returns with False (timeout is 300 by default)
safe_subprocess_run_timeout(command_list) ==
    "Command timed out after 300 seconds: " \o Join(command_list)

\* run_command: raise Exception(f"{module_name} failed: {output}")
run_command_error(module_name, output) == module_name \o " failed: " \o output

\* safe_subprocess_run: max_retries = 3 of its own loop
SubprocessMaxRetries == 3

\* what one subprocess.run call does: the process exits with a return code
\* and a stderr text, or TimeoutExpired or another exception is raised
StderrChoices == {"", "Connection reset by peer", "Quota exceeded", "KeyError: 'text'"}

ProcessOutcomes ==
    [kind : {"exit"}, returncode : {0, 1}, stderr : StderrChoices] \cup
    [kind : {"TimeoutExpired", "Exception"}, returncode : {0}, stderr : {""}]

\* slip: the loop of safe_subprocess_run never takes its continue branches
SubprocessRetries_never(sub_attempt, outcome) == FALSE

\* the continue branches of safe_subprocess_run: the command is run again
SubprocessRetries(sub_attempt, outcome) ==
    /\ sub_attempt < SubprocessMaxRetries - 1
    /\ \/ outcome.kind \in {"TimeoutExpired", "Exception"}
       \/ /\ outcome.kind = "exit"
          /\ outcome.returncode # 0
          /\ AnyKeyword({"network", "connection", "timeout"}, str_lower(outcome.stderr))

\* what safe_subprocess_run returns when it does not run the command again
SubprocessReturn(outcome, stage, project) ==
    IF outcome.kind = "exit" /\ outcome.returncode = 0
    THEN [success |-> TRUE, output |-> ""]
    ELSE IF outcome.kind = "exit"
    THEN [success |-> FALSE, output |-> "Command failed (code 1): " \o outcome.stderr]
    ELSE IF outcome.kind = "TimeoutExpired"
    THEN [success |-> FALSE,
          output |-> safe_subprocess_run_timeout(StageCommand(stage, project))]
    ELSE [success |-> FALSE,
          output |-> "Unexpected error running " \o stage \o " module: Permission denied"]

(* -------------------------- PreEditorValidator -------------------------- *)
\* an issue is <<prefix, message, subject>>
Issue(prefix, message, subject) == <<prefix, message, subject>>

_validate_project_file(fs) ==
    IF fs[project_file_path] = Absent
    THEN << Issue("", "Project file not found", "project.json") >>
    ELSE IF ~PlanWellFormed(fs[project_file_path])
         THEN << Issue("", "Missing required key in project file", "ffmpeg_settings") >>
         ELSE << >>

\* one <segment_id>.wav and one <segment_id>.png per segment, in plan order
_extract_required_assets(plan) ==
    [audio  |-> [i \in 1..Len(PlanSegments(plan)) |-> PlanSegments(plan)[i]],
     images |-> [i \in 1..Len(PlanSegments(plan)) |-> PlanSegments(plan)[i]]]

RECURSIVE AudioIssues(_, _)
AudioIssues(fs, required) ==
    IF required = << >> THEN << >>
    ELSE LET r == verify_audio_file(fs, AudioPath(Head(required)))
             rest == AudioIssues(fs, Tail(required))
         IN  IF r.valid THEN rest
             ELSE << Issue("Audio", r.message, Head(required)) >> \o rest

_validate_audio_assets(fs, folders, required) ==
    IF audio_folder \notin folders
    THEN << Issue("", "Audio folder not found", audio_folder) >>
    ELSE AudioIssues(fs, required)

RECURSIVE ImageIssues(_, _)
ImageIssues(fs, required) ==
    IF required = << >> THEN << >>
    ELSE LET r == verify_image_file(fs, ImagePath(Head(required)))
             rest == ImageIssues(fs, Tail(required))
         IN  IF r.valid THEN rest
             ELSE << Issue("Image", r.message, Head(required)) >> \o rest

\* slip: the image files are not looked at
_validate_image_assets_none(fs, folders, required) == << >>

_validate_image_assets(fs, folders, required) ==
    IF image_folder \notin folders
    THEN << Issue("", "Image folder not found", image_folder) >>
    ELSE ImageIssues(fs, required)

\* music is "missing" (no folder), "empty" (no music file in it) or "present"
_validate_music_assets(music) ==
    CASE music = "missing" -> << Issue("", "Music folder not found", "music") >>
      [] music = "empty"   -> << Issue("", "No music files found in", "music") >>
      [] music = "present" -> << >>

\* slip: the verdict does not depend on the issues found
validate_all_assets_always_ok(validation_enabled, fs, folders, music) ==
    IF ~validation_enabled THEN [ok |-> TRUE, issues |-> << >>]
    ELSE LET project_issues == _validate_project_file(fs)
         IN  IF project_issues # << >>
             THEN [ok |-> TRUE, issues |-> project_issues]
             ELSE LET required == _extract_required_assets(fs[project_file_path])
                      issues == _validate_audio_assets(fs, folders, required.audio)
                                \o _validate_image_assets(fs, folders, required.images)
                                \o _validate_music_assets(music)
                  IN  [ok |-> TRUE, issues |-> issues]

validate_all_assets(validation_enabled, fs, folders, music) ==
    IF ~validation_enabled THEN [ok |-> TRUE, issues |-> << >>]
    ELSE LET project_issues == _validate_project_file(fs)
         IN  IF project_issues # << >>
             THEN [ok |-> FALSE, issues |-> project_issues]
             ELSE LET required == _extract_required_assets(fs[project_file_path])
                      issues == _validate_audio_assets(fs, folders, required.audio)
                                \o _validate_image_assets(fs, folders, required.images)
                                \o _validate_music_assets(music)
                  IN  [ok |-> Len(issues) = 0, issues |-> issues]

\* the checks validate_all_assets goes through, in order
AllChecks == <<"project", "audio", "image", "music">>

checks_run(validation_enabled, fs) ==
    IF ~validation_enabled THEN << >>
    ELSE IF _validate_project_file(fs) # << >> THEN <<"project">>
    ELSE AllChecks

\* the text of an issue: f"Audio: {message}" with message f"Audio file not
\* found: {file_path}", f"Music folder not found: {music_folder}", ...
IssueString(issue) ==
    IF issue[1] = "" THEN issue[2] \o ": " \o issue[3]
    ELSE issue[1] \o ": " \o issue[2] \o ": " \o issue[3]

generate_missing_asset_report(issues) ==
    LET IsAudio(i) == Contains(IssueString(i), "Audio:") /\ Contains(IssueString(i), "not found")
        IsImage(i) == Contains(IssueString(i), "Image:") /\ Contains(IssueString(i), "not found")
        IsOther(i) == ~IsAudio(i) /\ ~IsImage(i)
    IN  [audio_missing  |-> SelectSeq(issues, IsAudio),
         images_missing |-> SelectSeq(issues, LAMBDA i : ~IsAudio(i) /\ IsImage(i)),
         other_issues   |-> SelectSeq(issues, IsOther)]

\* the suggestions are named by what they tell the operator to do: run the
\* narrator, run the image_director, add music, fix or regenerate project.json
suggest_recovery_actions(issues) ==
    LET report == generate_missing_asset_report(issues)
        other == report.other_issues
    IN  (IF report.audio_missing # << >> THEN <<"run narrator">> ELSE << >>)
        \o (IF report.images_missing # << >> THEN <<"run image_director">> ELSE << >>)
        \o (IF other # << >> /\ \E i \in 1..Len(other) :
                                     Contains(IssueString(other[i]), "Music folder")
            THEN <<"add music">> ELSE << >>)
        \o (IF other # << >> /\ \E i \in 1..Len(other) :
                                     Contains(IssueString(other[i]), "Project file")
            THEN <<"regenerate plan">> ELSE << >>)

(* --------------------------- Producer.setup_project --------------------- *)
Digits == "0123456789"

\* c.isalnum() or c in " _-", for the characters the inputs are made of
KeptBySlugify(c) == Contains(UpperCase \o LowerCase \o Digits \o " _-", c)

RECURSIVE KeepChars(_)
KeepChars(text) ==
    IF Len(text) = 0 THEN ""
    ELSE (IF KeptBySlugify(SubSeq(text, 1, 1)) THEN SubSeq(text, 1, 1) ELSE "")
         \o KeepChars(SubSeq(text, 2, Len(text)))

\* text.rstrip() and text.lstrip(), for blanks
RECURSIVE str_rstrip(_)
str_rstrip(text) ==
    IF Len(text) > 0 /\ SubSeq(text, Len(text), Len(text)) = " "
    THEN str_rstrip(SubSeq(text, 1, Len(text) - 1))
    ELSE text

RECURSIVE str_lstrip(_)
str_lstrip(text) ==
    IF Len(text) > 0 /\ SubSeq(text, 1, 1) = " "
    THEN str_lstrip(SubSeq(text, 2, Len(text)))
    ELSE text

str_strip(text) == str_lstrip(str_rstrip(text))

RECURSIVE ReplaceBlanks(_)
ReplaceBlanks(text) ==
    IF Len(text) = 0 THEN ""
    ELSE (IF SubSeq(text, 1, 1) = " " THEN "_" ELSE SubSeq(text, 1, 1))
         \o ReplaceBlanks(SubSeq(text, 2, Len(text)))

\* "".join(c for c in text if c.isalnum() or c in " _-").rstrip().replace(" ", "_")
_slugify(text) == ReplaceBlanks(str_rstrip(KeepChars(text)))

\* self._slugify(self.video_topic)[:50]
SlugLength == 50
project_slug(topic) ==
    LET slug == _slugify(topic)
    IN  IF Len(slug) > SlugLength THEN SubSeq(slug, 1, SlugLength) ELSE slug

\* os.path.join("channels", channel_slug, project_slug)
ProjectPath(channel_slug, topic) == "channels/" \o channel_slug \o "/" \o project_slug(topic)

\* int(text): the texts int() accepts, and its value
IsDigits(text) ==
    Len(text) > 0 /\ \A i \in 1..Len(text) : Contains(Digits, SubSeq(text, i, i))

IsIntLiteral(text) ==
    \/ IsDigits(text)
    \/ Len(text) > 1 /\ SubSeq(text, 1, 1) \in {"-", "+"} /\ IsDigits(SubSeq(text, 2, Len(text)))

DigitValue(c) == CHOOSE d \in 0..9 : SubSeq(Digits, d + 1, d + 1) = c

RECURSIVE DigitsValue(_)
DigitsValue(text) ==
    IF Len(text) = 0 THEN 0
    ELSE 10 * DigitsValue(SubSeq(text, 1, Len(text) - 1))
         + DigitValue(SubSeq(text, Len(text), Len(text)))

py_int(text) ==
    IF SubSeq(text, 1, 1) = "-" THEN 0 - DigitsValue(SubSeq(text, 2, Len(text)))
    ELSE IF SubSeq(text, 1, 1) = "+" THEN DigitsValue(SubSeq(text, 2, Len(text)))
    ELSE DigitsValue(text)

\* what the operator types at "Video topic: " and "Target character count: "
TopicInputs == {"", "Rome", " Rome! ", "Athens 2"}
CountInputs == {"1500", "0", "-5", "abc"}

\* the task weekly_guide.json holds for today, or none
NoTask == [channel_name |-> "", video_topic |-> "", target_char_count |-> 0]
WeeklyTasks ==
    {[channel_name |-> "History", video_topic |-> t, target_char_count |-> 1500] :
        t \in {"Rome", "Athens 2"}}

\* the channel the operator selects, and its slug in config["channels"]
SelectedChannel == "History"
ChannelSlug == "history"

\* the project directories a run can resolve to
ProjectPaths == {ProjectPath(ChannelSlug, str_strip(t)) : t \in TopicInputs \ {""}}

\* a project directory: absent, or holding a status.json with completed_steps
\* and an integrity.json whose hashes match the files or not
NoDir == [exists |-> FALSE, completed_steps |-> << >>, intact |-> TRUE]
EmptyDir == [exists |-> TRUE, completed_steps |-> << >>, intact |-> TRUE]
DirStates ==
    {NoDir, EmptyDir} \cup
    [exists : {TRUE}, completed_steps : {SubSeq(Steps, 1, 2), Steps}, intact : BOOLEAN]

\* check_incomplete_projects: directories with steps recorded and no upload
check_incomplete_projects(dirs) ==
    {path \in DOMAIN dirs :
        /\ dirs[path].exists
        /\ dirs[path].completed_steps # << >>
        /\ "upload" \notin Range(dirs[path].completed_steps)}

(* ------------------------------- state --------------------------------- *)
VARIABLES
    verify_before_editor,   \* config: asset_verification.verify_before_editor
    music,                  \* the configured music folder
    service_account,        \* service_account.json exists
    files,                  \* content of every file of the project directory
    folders,                \* which of the audio and image folders exist
    projectDir,             \* the project directory exists
    statusFile,             \* status.json
    integrityFile,          \* integrity.json
    pc,                     \* where the orchestrator process is in run_pipeline
    is_manual,              \* Producer.is_manual of the process
    status,                 \* Producer.status["completed_steps"]
    hash_status,            \* Producer.hash_status["file_hashes"]
    exitCode,               \* exit code of the last process
    runs, tampers, writeFails,
    \* what the current run has done so far
    loadedStatus,           \* completed_steps as loaded by load_status
    recordMatchedAtStart,   \* every persisted hash matched its file at the start
    resetDecision,          \* "none", "forced", "prompt", "confirmed", "declined"
    calls,                  \* stages launched and gate checks, in order
    succeeded,              \* stages that ended successfully
    failedStage,            \* the stage that failed permanently, or "none"
    gateIssues,             \* issue count of the gate check, -1 before it
    assetsValidAtGate,      \* every required asset was valid at the gate check
    startStatusFile, startIntegrityFile,
    writeCalls,             \* write_json calls of the run
    finished                \* the run reached "PRODUCTION COMPLETED SUCCESSFULLY"

\* one call of RetryHandler.execute_with_retry
VARIABLES
    retry_policies,         \* config["retry_policies"], by error type
    attempt,                \* the loop variable
    raisedTypes,            \* types of the exceptions func raised, in order
    sleeps,                 \* arguments of the time.sleep calls, in order
    retryResult,            \* "idle", "running", "returned", "raised", "raised_none"
    reraised                \* which exception was re-raised: its index in raisedTypes

retryVars == <<retry_policies, attempt, raisedTypes, sleeps, retryResult, reraised>>

\* one call of AtomicFileWriter.write_json(file_path, data), then read_json
VARIABLES
    writePc,                \* "idle", "start", "dumped", "removed", "done", "killed", "read"
    destFile,               \* the file at file_path
    tempFile,               \* the file at temp_path
    prevFile,               \* the file at file_path when write_json was called
    writeData,              \* data
    writeRet,               \* "none", "True", "False"
    readResult              \* what read_json(file_path) returned afterwards

writerVars == <<writePc, destFile, tempFile, prevFile, writeData, writeRet, readResult>>

\* one RateLimiter shared by the threads of a stage
VARIABLES
    requests_per_minute, cooldown_seconds,
    last_request_time, request_count, minute_start,
    lockHolder,             \* the thread inside "with self._lock", or "none"
    clock,                  \* time.time()
    limPc,                  \* where each thread is in wait_if_needed
    current_time,           \* the local current_time of each thread
    wakeAt,                 \* when the time.sleep of each thread ends
    countRead,              \* request_count as read by each thread for += 1
    rolled,                 \* the call of each thread slept for the window
    windowAdmits,           \* calls counted since the counter was last reset
    callsMade,              \* calls of wait_if_needed started
    admits,                 \* calls of wait_if_needed that returned
    lastCaller              \* the thread whose call returned last, or "none"

limiterVars == <<requests_per_minute, cooldown_seconds, last_request_time, request_count,
                 minute_start, lockHolder, clock, limPc, current_time, wakeAt, countRead,
                 rolled, windowAdmits, callsMade, admits, lastCaller>>

\* one call of ErrorClassifier.classify_error
VARIABLES
    quota_keywords,         \* ErrorClassifier.quota_keywords
    errMessage,             \* str(e)
    errType,                \* type(e), or None
    errOrigin,              \* "none", "call" or "timeout": where the error came from
    classified,             \* the ErrorType returned, "none" before
    clsPc                   \* "idle", "start", "raised", "classified"

classifierVars == <<quota_keywords, errMessage, errType, errOrigin, classified, clsPc>>

\* one call of validate_all_assets, then of suggest_recovery_actions
VARIABLES
    valPc,                  \* "idle", "start", "validated", "suggested"
    valResult,              \* what validate_all_assets returned
    checksRun,              \* the checks it went through
    hints                   \* what suggest_recovery_actions returned

validatorVars == <<valPc, valResult, checksRun, hints>>

\* one call of run_module_with_retry(module_name, command_args)
VARIABLES
    module_name,            \* the stage
    stageProject,           \* the project the command is built for
    commandRuns,            \* calls of run_command made by execute_with_retry
    subPc,                  \* "idle", "calling", "returned": safe_subprocess_run
    subAttempt,             \* the loop variable of safe_subprocess_run
    subResult,              \* what safe_subprocess_run returned
    launches                \* subprocess.run calls: processes launched

stageVars == <<module_name, stageProject, commandRuns, subPc, subAttempt, subResult,
               launches>>

\* setup_project and the start of run_pipeline, in one channel folder
VARIABLES
    projectDirs,            \* the project directories of the channel folder
    channel_name, video_topic, target_char_count,
    project_path,
    startedAs,              \* "none", "new" or "resume": how the project was chosen
    setupLoaded,            \* completed_steps as load_status read it, or NotLoaded
    scriptwriterArgs,       \* what scriptwriter.py was launched with, or NoArgs
    setupPc                 \* "idle", "start", "resolved", "prompt", "steps",
                            \* "launched", "skipped", "returned"

setupVars == <<projectDirs, channel_name, video_topic, target_char_count, project_path,
               startedAs, setupLoaded, scriptwriterArgs, setupPc>>

checkVars == <<classifierVars, validatorVars, stageVars, setupVars>>

utilVars == <<retryVars, writerVars, limiterVars, checkVars>>

cfgVars == <<verify_before_editor, music, service_account>>
diskVars == <<files, folders, projectDir, statusFile, integrityFile>>
memVars == <<is_manual, status, hash_status>>
runVars == <<loadedStatus, recordMatchedAtStart, resetDecision, calls, succeeded,
             failedStage, gateIssues, assetsValidAtGate, startStatusFile,
             startIntegrityFile, writeCalls, finished>>
producerVars == <<cfgVars, diskVars, memVars, runVars, pc, exitCode, runs, tampers,
                  writeFails>>
vars == <<producerVars, utilVars>>

\* exit codes: none yet, normal return of run_pipeline, sys.exit(1), killed
NotExited == -1
NormalExit == 0
\* slip: sys.exit(0) in the handler of PreEditorValidationError
GateFailureExit_zero == 0

GateFailureExit == 1
StageFailureExit == 1
KilledExit == 137

NoFiles == [p \in Paths |-> Absent]

\* no call of execute_with_retry is under way
RetryIdle ==
    /\ retry_policies = [t \in RetryableTypes |-> EmptyPolicy]
    /\ attempt = 0
    /\ raisedTypes = << >>
    /\ sleeps = << >>
    /\ retryResult = "idle"
    /\ reraised = 0

\* the project before the first orchestrator process, with the music folder m
ProducerInitWith(m) ==
    /\ verify_before_editor \in BOOLEAN
    /\ music = m
    /\ service_account = TRUE
    /\ files = NoFiles
    /\ folders = {}
    /\ projectDir = FALSE
    /\ statusFile = NoJsonFile(EmptySteps)
    /\ integrityFile = NoJsonFile(EmptyHashes)
    /\ pc = "idle"
    /\ is_manual = TRUE
    /\ status = EmptySteps
    /\ hash_status = EmptyHashes
    /\ exitCode = NotExited
    /\ runs = 0 /\ tampers = 0 /\ writeFails = 0
    /\ loadedStatus = EmptySteps
    /\ recordMatchedAtStart = TRUE
    /\ resetDecision = "none"
    /\ calls = << >>
    /\ succeeded = {}
    /\ failedStage = "none"
    /\ gateIssues = -1
    /\ assetsValidAtGate = FALSE
    /\ startStatusFile = NoJsonFile(EmptySteps)
    /\ startIntegrityFile = NoJsonFile(EmptyHashes)
    /\ writeCalls = 0
    /\ finished = FALSE

\* no call of write_json is under way
WriterIdle ==
    /\ writePc = "idle"
    /\ destFile = NoFile
    /\ tempFile = NoFile
    /\ prevFile = NoFile
    /\ writeData = << >>
    /\ writeRet = "none"
    /\ readResult = NoneResult

ProducerInit == ProducerInitWith("present")

\* RateLimiter.__init__ and threads that have not called it yet
LimiterNew ==
    /\ last_request_time = 0
    /\ request_count = 0
    /\ minute_start = ConstructionTime
    /\ lockHolder = "none"
    /\ clock = ConstructionTime
    /\ limPc = [t \in Threads |-> "idle"]
    /\ current_time = [t \in Threads |-> 0]
    /\ wakeAt = [t \in Threads |-> 0]
    /\ countRead = [t \in Threads |-> 0]
    /\ rolled = [t \in Threads |-> FALSE]
    /\ windowAdmits = 0
    /\ callsMade = 0
    /\ admits = 0
    /\ lastCaller = "none"

\* no RateLimiter is in use
LimiterIdle ==
    /\ requests_per_minute = 1
    /\ cooldown_seconds = 0
    /\ LimiterNew

\* ErrorClassifier.__init__ with the quota keywords q; no error yet
ClassifierNew(q, at) ==
    /\ quota_keywords = q
    /\ errMessage = ""
    /\ errType = NoType
    /\ errOrigin = "none"
    /\ classified = "none"
    /\ clsPc = at

\* validate_all_assets has not been called
ValidatorNew(at) ==
    /\ valPc = at
    /\ valResult = [ok |-> TRUE, issues |-> << >>]
    /\ checksRun = << >>
    /\ hints = << >>

\* run_module_with_retry(stage, StageCommand(stage, project)) has been called
\* and safe_subprocess_run not yet
StageNew(stage, project) ==
    /\ module_name = stage
    /\ stageProject = project
    /\ commandRuns = 0
    /\ subPc = "idle"
    /\ subAttempt = 0
    /\ subResult = [success |-> TRUE, output |-> ""]
    /\ launches = 0

NotLoaded == <<"not loaded">>
NoArgs == [channel_name |-> "", video_topic |-> "", target_char_count |-> 0,
           output_path |-> ""]

\* Producer.__init__ in the channel folder dirs
SetupNew(dirs, at) ==
    /\ projectDirs = dirs
    /\ channel_name = ""
    /\ video_topic = ""
    /\ target_char_count = 0
    /\ project_path = ""
    /\ startedAs = "none"
    /\ setupLoaded = NotLoaded
    /\ scriptwriterArgs = NoArgs
    /\ setupPc = at

StageIdle == StageNew("scriptwriter", CHOOSE project \in Projects : project.topic = "Rome")

SetupIdle == SetupNew([path \in ProjectPaths |-> NoDir], "idle")

\* nothing is being checked and no stage is being run on its own
ChecksIdle ==
    /\ ClassifierNew(DefaultQuotaKeywords, "idle")
    /\ ValidatorNew("idle")
    /\ StageIdle
    /\ SetupIdle

Init ==
    /\ ProducerInit
    /\ RetryIdle
    /\ WriterIdle
    /\ LimiterIdle
    /\ ChecksIdle

(* ------------------------------ Producer -------------------------------- *)
load_status(file) == read_json_or(file, EmptySteps)

load_hash_status(file) == read_json_or(file, EmptyHashes)

\* slip: the membership test is lost and every step is run again
is_step_complete_never(step_name) == FALSE

\* slip: the upload step is looked up under another name
is_step_complete_typo(step_name) ==
    step_name # "upload" /\ step_name \in Range(status)

is_step_complete(step_name) == step_name \in Range(status)

\* slip: the step is inserted at the front of the list
complete_step_status_prepend(st, step_name) ==
    IF step_name \notin Range(st) THEN <<step_name>> \o st ELSE st

\* slip: the list is replaced by the step instead of extended
complete_step_status_overwrite(st, step_name) == <<step_name>>

\* the completed_steps list after complete_step(step_name)
complete_step_status(st, step_name) ==
    IF step_name \notin Range(st) THEN Append(st, step_name) ELSE st

\* the file_hashes after complete_step(step_name, files_to_hash)
complete_step_hashes(hs, fs, files_to_hash) ==
    [p \in Paths |->
        IF p \in files_to_hash /\ fs[p] # Absent /\ calculate_file_hash(fs, p) # NoHash
        THEN calculate_file_hash(fs, p)
        ELSE hs[p]]

\* slip: only the existence of the recorded files is checked
verify_file_integrity_exists_only(hs, fs) ==
    \A p \in Paths : hs[p] # NoEntry => fs[p] # Absent

verify_file_integrity(hs, fs) ==
    IF \A p \in Paths : hs[p] = NoEntry THEN TRUE
    ELSE \A p \in Paths :
            hs[p] # NoEntry => (fs[p] # Absent /\ calculate_file_hash(fs, p) = hs[p])

\* what an external stage did: run_module_with_retry is True iff
\* execute_with_retry returned without raising
StageResults == {"success", "failure"}

\* slip: the failure of the stage is logged but True is returned
run_module_with_retry_always_true(result) == TRUE

run_module_with_retry(result) == result = "success"

\* number of failing write_json calls among the two of complete_step
FailCount(ws, wh) == (IF ws = "ok" THEN 0 ELSE 1) + (IF wh = "ok" THEN 0 ELSE 1)

\* the process was terminated inside one of the writes of complete_step
Killed(ws, wh) == ws \in KillOutcomes \/ wh \in KillOutcomes

\* complete_step(step_name, files_to_hash) on the files fs; save_hash_status
\* is reached only if the process outlives save_status
complete_step(step_name, files_to_hash, fs, ws, wh) ==
    /\ writeFails + FailCount(ws, wh) <= MaxWriteFail
    /\ (files_to_hash = {} \/ ws \in KillOutcomes) => wh = "ok"
    /\ status' = complete_step_status(status, step_name)
    /\ hash_status' = complete_step_hashes(hash_status, fs, files_to_hash)
    /\ statusFile' = write_json(statusFile, status', ws, EmptySteps)
    /\ integrityFile' = IF files_to_hash # {} /\ ws \notin KillOutcomes
                        THEN write_json(integrityFile, hash_status', wh, EmptyHashes)
                        ELSE integrityFile
    /\ writeFails' = writeFails + FailCount(ws, wh)
    /\ writeCalls' = writeCalls +
                        (IF files_to_hash # {} /\ ws \notin KillOutcomes THEN 2 ELSE 1)

\* after complete_step the run goes on with the next block, unless the
\* process was terminated inside a write
AfterCompleteStep(next, ws, wh) ==
    /\ pc' = IF Killed(ws, wh) THEN "exited" ELSE next
    /\ exitCode' = IF Killed(ws, wh) THEN KilledExit ELSE exitCode
    /\ UNCHANGED finished

\* slip: the handler removes the status file of the failed run
AbortRun_drops_status ==
    /\ pc' = "exited"
    /\ exitCode' = StageFailureExit
    /\ statusFile' = NoJsonFile(EmptySteps)
    /\ UNCHANGED <<status, hash_status, integrityFile, writeFails, writeCalls, finished>>

\* raise Exception("... module failed") caught at the end of run_pipeline
AbortRun ==
    /\ pc' = "exited"
    /\ exitCode' = StageFailureExit
    /\ UNCHANGED <<status, hash_status, statusFile, integrityFile, writeFails,
                   writeCalls, finished>>

\* history of one stage launch
Launched(stage, result) ==
    /\ calls' = Append(calls, stage)
    /\ succeeded' = IF result = "success" THEN succeeded \cup {stage} ELSE succeeded
    /\ failedStage' = IF result = "failure" THEN stage ELSE failedStage

(* ------------------------- the external stages -------------------------- *)
\* the plans director.py may write (it writes a plan that follows its schema)
Versions == 1..MaxVersion

\* the content a stage writes into a script, audio, image or video file
Generated == 1

\* scriptwriter.py writes the script; a failed stage writes nothing
ScriptwriterEffect(fs, result, v) ==
    IF result = "success" THEN [fs EXCEPT ![script_path] = v] ELSE fs

ScriptwriterCan(fs, result) == TRUE

\* director.py reads the script and writes the plan
DirectorEffect(fs, result, plan) ==
    IF result = "success" THEN [fs EXCEPT ![project_file_path] = plan] ELSE fs

DirectorCan(fs, result) == result = "success" => fs[script_path] # Absent

\* narrator.py: the segments whose .wav it has to generate
SegmentsToNarrate(fs) ==
    {seg \in Range(PlanSegments(fs[project_file_path])) :
        ~verify_audio_file(fs, AudioPath(seg)).valid}

\* narrator.py generates the .wav of the segments in done; it succeeds iff
\* none of the segments to narrate is left
NarratorEffect(fs, done, v) ==
    [p \in Paths |-> IF \E seg \in done : p = AudioPath(seg) THEN v ELSE fs[p]]

NarratorCan(fs, result, done) ==
    IF fs[project_file_path] = Absent
    THEN result = "failure" /\ done = {}
    ELSE /\ done \subseteq SegmentsToNarrate(fs)
         /\ result = "success" => done = SegmentsToNarrate(fs)
         /\ result = "failure" => (done # SegmentsToNarrate(fs) \/ done = {})

\* image_director.py, the same for the .png files
ImagesToGenerate(fs) ==
    {seg \in Range(PlanSegments(fs[project_file_path])) :
        ~verify_image_file(fs, ImagePath(seg)).valid}

ImageDirectorEffect(fs, done, v) ==
    [p \in Paths |-> IF \E seg \in done : p = ImagePath(seg) THEN v ELSE fs[p]]

ImageDirectorCan(fs, result, done) ==
    IF fs[project_file_path] = Absent
    THEN result = "failure" /\ done = {}
    ELSE /\ done \subseteq ImagesToGenerate(fs)
         /\ result = "success" => done = ImagesToGenerate(fs)
         /\ result = "failure" => (done # ImagesToGenerate(fs) \/ done = {})

\* editor.py validates the .wav and .png of every segment itself before it
\* starts, and writes the video
EditorEffect(fs, result, v) ==
    IF result = "success" THEN [fs EXCEPT ![final_video_path] = v] ELSE fs

EditorCan(fs, result) ==
    result = "success" =>
        /\ fs[project_file_path] # Absent
        /\ \A seg \in Range(PlanSegments(fs[project_file_path])) :
              /\ verify_audio_file(fs, AudioPath(seg)).valid
              /\ verify_image_file(fs, ImagePath(seg)).valid

\* uploader.py needs the plan and the video
UploaderCan(fs, result) ==
    result = "success" => (fs[project_file_path] # Absent /\ fs[final_video_path] # Absent)

\* os.listdir(folder) filtered by extension, joined to the folder
ListFolder(fs, paths) == {p \in paths : fs[p] # Absent}

(* --------------------------- run_pipeline ------------------------------- *)
Lower(answer) == IF answer = "Y" THEN "y" ELSE IF answer = "N" THEN "n" ELSE answer

Answers == {"y", "Y", "n", ""}

\* slip: only the files at the top of the project directory are removed
ResetFiles_shallow(fs) ==
    [p \in Paths |-> IF p \in AudioPaths \cup ImagePaths THEN fs[p] ELSE Absent]

\* shutil.rmtree(project_path); os.makedirs(project_path); clear both records
ResetFiles(fs) == NoFiles

ResetProject ==
    /\ files' = ResetFiles(files)
    /\ folders' = {}
    /\ projectDir' = TRUE
    /\ statusFile' = NoJsonFile(EmptySteps)
    /\ integrityFile' = NoJsonFile(EmptyHashes)
    /\ status' = EmptySteps
    /\ hash_status' = EmptyHashes

\* the per-run history at the start of a process
NewRun(st, hs) ==
    /\ runs' = runs + 1
    /\ loadedStatus' = st
    /\ recordMatchedAtStart' =
          \A p \in Paths : hs[p] # NoEntry => (files[p] # Absent /\ Sha256(files[p]) = hs[p])
    /\ calls' = << >>
    /\ succeeded' = {}
    /\ failedStage' = "none"
    /\ gateIssues' = -1
    /\ assetsValidAtGate' = FALSE
    /\ startStatusFile' = statusFile
    /\ startIntegrityFile' = integrityFile
    /\ writeCalls' = 0
    /\ finished' = FALSE

\* setup_project returns False: run_pipeline returns at once
SetupFails(manual) ==
    /\ pc \in {"idle", "exited"}
    /\ runs < MaxRuns
    /\ is_manual' = manual
    /\ status' = EmptySteps
    /\ hash_status' = EmptyHashes
    /\ NewRun(EmptySteps, EmptyHashes)
    /\ resetDecision' = "none"
    /\ pc' = "exited"
    /\ exitCode' = NormalExit
    /\ UNCHANGED <<cfgVars, diskVars, tampers, writeFails>>
    /\ UNCHANGED utilVars

\* setup_project, load_status, load_hash_status and the integrity check
StartRun(manual) ==
    /\ pc \in {"idle", "exited"}
    /\ runs < MaxRuns
    /\ is_manual' = manual
    /\ exitCode' = NotExited
    /\ LET st == load_status(statusFile)
           hs == load_hash_status(integrityFile)
       IN  /\ NewRun(st, hs)
           /\ IF st # << >> /\ ~verify_file_integrity(hs, files)
              THEN IF manual
                   THEN /\ resetDecision' = "prompt"
                        /\ pc' = "prompt"
                        /\ status' = st
                        /\ hash_status' = hs
                        /\ projectDir' = TRUE
                        /\ UNCHANGED <<files, folders, statusFile, integrityFile>>
                   ELSE /\ resetDecision' = "forced"
                        /\ pc' = "scriptwriting"
                        /\ ResetProject
              ELSE /\ resetDecision' = "none"
                   /\ pc' = "scriptwriting"
                   /\ status' = st
                   /\ hash_status' = hs
                   /\ projectDir' = TRUE
                   /\ UNCHANGED <<files, folders, statusFile, integrityFile>>
    /\ UNCHANGED <<cfgVars, tampers, writeFails>>
    /\ UNCHANGED utilVars

\* slip: the return after "Operation cancelled" is lost and the run goes on
DeclineReset_goes_on ==
    /\ resetDecision' = "declined"
    /\ pc' = "scriptwriting"
    /\ UNCHANGED <<exitCode, diskVars, status, hash_status>>

\* reset != 'y': "Operation cancelled", run_pipeline returns
DeclineReset ==
    /\ resetDecision' = "declined"
    /\ pc' = "exited"
    /\ exitCode' = NormalExit
    /\ UNCHANGED <<diskVars, status, hash_status>>

\* the operator's answer to "Files modified. Reset project? (y/N)"
AnswerPrompt(answer) ==
    /\ pc = "prompt"
    /\ IF Lower(answer) = "y"
       THEN /\ resetDecision' = "confirmed"
            /\ pc' = "scriptwriting"
            /\ ResetProject
            /\ UNCHANGED exitCode
       ELSE DeclineReset
    /\ UNCHANGED <<cfgVars, is_manual, runs, tampers, writeFails, loadedStatus,
                   recordMatchedAtStart, calls, succeeded, failedStage, gateIssues,
                   assetsValidAtGate, startStatusFile, startIntegrityFile,
                   writeCalls, finished>>
    /\ UNCHANGED utilVars

\* what a run fixes at its start
startVars == <<loadedStatus, recordMatchedAtStart, resetDecision, startStatusFile,
               startIntegrityFile>>

gateVars == <<gateIssues, assetsValidAtGate>>

\* a step that is already in completed_steps is passed over
SkipStep(next) ==
    /\ pc' = next
    /\ UNCHANGED <<cfgVars, diskVars, memVars, runVars, exitCode, runs, tampers, writeFails>>

\* Step 1: Scriptwriting
Scriptwriting ==
    /\ pc = "scriptwriting"
    /\ \/ /\ is_step_complete("scriptwriting")
          /\ SkipStep("direction")
       \/ /\ ~is_step_complete("scriptwriting")
          /\ \E result \in StageResults, v \in {Generated}, ws, wh \in WriteOutcomes :
                /\ ScriptwriterCan(files, result)
                /\ result = "failure" => (ws = "ok" /\ wh = "ok")
                /\ files' = ScriptwriterEffect(files, result, v)
                /\ Launched("scriptwriter", result)
                /\ IF run_module_with_retry(result)
                   THEN /\ complete_step("scriptwriting", {script_path}, files', ws, wh)
                        /\ AfterCompleteStep("direction", ws, wh)
                   ELSE AbortRun
          /\ UNCHANGED <<cfgVars, folders, projectDir, is_manual, startVars, gateVars,
                         runs, tampers>>
    /\ UNCHANGED utilVars

\* Step 2: Direction
Direction ==
    /\ pc = "direction"
    /\ \/ /\ is_step_complete("direction")
          /\ SkipStep("asset_production")
       \/ /\ ~is_step_complete("direction")
          /\ \E result \in StageResults, plan \in Versions, ws, wh \in WriteOutcomes :
                /\ DirectorCan(files, result)
                /\ result = "failure" => (plan = 1 /\ ws = "ok" /\ wh = "ok")
                /\ files' = DirectorEffect(files, result, plan)
                /\ Launched("director", result)
                /\ IF run_module_with_retry(result)
                   THEN /\ complete_step("direction", {project_file_path}, files', ws, wh)
                        /\ AfterCompleteStep("asset_production", ws, wh)
                   ELSE AbortRun
          /\ UNCHANGED <<cfgVars, folders, projectDir, is_manual, startVars, gateVars,
                         runs, tampers>>
    /\ UNCHANGED utilVars

\* slip: the gate is guarded like a step and passed over once editing is recorded
AfterAssetProduction_skips_gate ==
    IF is_step_complete("editing") THEN "editing" ELSE "gate"

\* slip: the validation block is left out and the editing block follows
AfterAssetProduction_no_gate == "editing"

\* the stage after the asset-production block: the gate, unconditionally
AfterAssetProduction == "gate"

\* Step 3: Asset Production, 3a: Narration
Narration ==
    /\ pc = "asset_production"
    /\ \/ /\ is_step_complete("asset_production")
          /\ SkipStep(AfterAssetProduction)
       \/ /\ ~is_step_complete("asset_production")
          /\ folders' = {audio_folder, image_folder}
          /\ \E result \in StageResults, v \in {Generated}, done \in SUBSET Segments :
                /\ NarratorCan(files, result, done)
                /\ files' = NarratorEffect(files, done, v)
                /\ Launched("narrator", result)
                /\ IF run_module_with_retry(result)
                   THEN /\ pc' = "image_generation"
                        /\ UNCHANGED <<exitCode, status, hash_status, statusFile,
                                       integrityFile, writeFails, writeCalls, finished>>
                   ELSE AbortRun
          /\ UNCHANGED <<cfgVars, projectDir, is_manual, startVars, gateVars,
                         runs, tampers>>
    /\ UNCHANGED utilVars

\* Step 3b: Image Generation, then the step is recorded with every .wav and
\* .png found in the two folders
ImageGeneration ==
    /\ pc = "image_generation"
    /\ \E result \in StageResults, v \in {Generated}, done \in SUBSET Segments,
          ws, wh \in WriteOutcomes :
          /\ ImageDirectorCan(files, result, done)
          /\ result = "failure" => (ws = "ok" /\ wh = "ok")
          /\ files' = ImageDirectorEffect(files, done, v)
          /\ Launched("image_director", result)
          /\ IF run_module_with_retry(result)
             THEN /\ complete_step("asset_production",
                                   ListFolder(files', AudioPaths) \cup ListFolder(files', ImagePaths),
                                   files', ws, wh)
                  /\ AfterCompleteStep(AfterAssetProduction, ws, wh)
             ELSE AbortRun
    /\ UNCHANGED <<cfgVars, folders, projectDir, is_manual, startVars, gateVars,
                   runs, tampers>>
    /\ UNCHANGED utilVars

\* every asset the plan requires exists and passes AssetVerifier
RequiredAssetsValid(fs) ==
    /\ fs[project_file_path] # Absent
    /\ \A seg \in Range(PlanSegments(fs[project_file_path])) :
          /\ verify_audio_file(fs, AudioPath(seg)).valid
          /\ verify_image_file(fs, ImagePath(seg)).valid

\* Step 4: Pre-Editor Asset Validation
Gate ==
    /\ pc = "gate"
    /\ LET r == validate_all_assets(verify_before_editor, files, folders, music)
       IN  /\ calls' = Append(calls, "gate")
           /\ gateIssues' = Len(r.issues)
           /\ assetsValidAtGate' = RequiredAssetsValid(files)
           /\ IF r.ok
              THEN /\ pc' = "editing"
                   /\ UNCHANGED exitCode
              ELSE /\ pc' = "exited"
                   /\ exitCode' = GateFailureExit
    /\ UNCHANGED <<cfgVars, diskVars, memVars, startVars, succeeded, failedStage,
                   writeCalls, finished, runs, tampers, writeFails>>
    /\ UNCHANGED utilVars

\* Step 5: Editing
Editing ==
    /\ pc = "editing"
    /\ \/ /\ is_step_complete("editing")
          /\ SkipStep("upload")
       \/ /\ ~is_step_complete("editing")
          /\ \E result \in StageResults, v \in {Generated}, ws, wh \in WriteOutcomes :
                /\ EditorCan(files, result)
                /\ result = "failure" => (ws = "ok" /\ wh = "ok")
                /\ files' = EditorEffect(files, result, v)
                /\ Launched("editor", result)
                /\ IF run_module_with_retry(result)
                   THEN /\ complete_step("editing", {final_video_path}, files', ws, wh)
                        /\ AfterCompleteStep("upload", ws, wh)
                   ELSE AbortRun
          /\ UNCHANGED <<cfgVars, folders, projectDir, is_manual, startVars, gateVars,
                         runs, tampers>>
    /\ UNCHANGED utilVars

\* run_pipeline returns after "PRODUCTION COMPLETED SUCCESSFULLY"
Finish ==
    /\ pc' = "exited"
    /\ exitCode' = NormalExit
    /\ finished' = TRUE

\* Step 6: Upload
Upload ==
    /\ pc = "upload"
    /\ \/ /\ is_step_complete("upload")
          /\ Finish
          /\ UNCHANGED <<cfgVars, diskVars, memVars, startVars, gateVars, calls, succeeded,
                         failedStage, writeCalls, runs, tampers, writeFails>>
       \/ /\ ~is_step_complete("upload")
          /\ ~service_account
          /\ AbortRun
          /\ UNCHANGED <<cfgVars, files, folders, projectDir, is_manual, runVars,
                         runs, tampers>>
       \/ /\ ~is_step_complete("upload")
          /\ service_account
          /\ \E result \in StageResults, ws \in WriteOutcomes :
                /\ UploaderCan(files, result)
                /\ result = "failure" => ws = "ok"
                /\ Launched("uploader", result)
                /\ IF run_module_with_retry(result)
                   THEN /\ complete_step("upload", {}, files, ws, "ok")
                        /\ IF Killed(ws, "ok")
                           THEN AfterCompleteStep("exited", ws, "ok")
                           ELSE Finish
                   ELSE AbortRun
          /\ UNCHANGED <<cfgVars, files, folders, projectDir, is_manual, startVars,
                         gateVars, runs, tampers>>
    /\ UNCHANGED utilVars

\* the process is terminated (interrupt signal) between two steps
Interrupt ==
    /\ pc \notin {"idle", "exited"}
    /\ pc' = "exited"
    /\ exitCode' = KilledExit
    /\ UNCHANGED <<cfgVars, diskVars, memVars, runVars, runs, tampers, writeFails>>
    /\ UNCHANGED utilVars

(* ----------------------------- the operator ----------------------------- *)
\* between two runs a file of the project is modified or deleted
TamperFile(path, c) ==
    /\ pc = "exited"
    /\ tampers < MaxTamper
    /\ files[path] # Absent
    /\ c # files[path]
    /\ files' = [files EXCEPT ![path] = c]
    /\ tampers' = tampers + 1
    /\ UNCHANGED <<cfgVars, folders, projectDir, statusFile, integrityFile, memVars,
                   runVars, pc, exitCode, runs, writeFails>>
    /\ UNCHANGED utilVars

\* between two runs the music folder is emptied, removed or filled
ChangeMusic(m) ==
    /\ pc = "exited"
    /\ tampers < MaxTamper
    /\ m # music
    /\ music' = m
    /\ tampers' = tampers + 1
    /\ UNCHANGED <<verify_before_editor, service_account, diskVars, memVars, runVars,
                   pc, exitCode, runs, writeFails>>
    /\ UNCHANGED utilVars

\* between two runs service_account.json is removed or put back
ChangeServiceAccount ==
    /\ pc = "exited"
    /\ tampers < MaxTamper
    /\ service_account' = ~service_account
    /\ tampers' = tampers + 1
    /\ UNCHANGED <<verify_before_editor, music, diskVars, memVars, runVars,
                   pc, exitCode, runs, writeFails>>
    /\ UNCHANGED utilVars

Next ==
    \/ \E manual \in BOOLEAN : SetupFails(manual)
    \/ \E manual \in BOOLEAN : StartRun(manual)
    \/ \E answer \in Answers : AnswerPrompt(answer)
    \/ Scriptwriting
    \/ Direction
    \/ Narration
    \/ ImageGeneration
    \/ Gate
    \/ Editing
    \/ Upload
    \/ Interrupt
    \/ \E path \in Paths, c \in Contents \cup {Absent} : TamperFile(path, c)
    \/ \E m \in {"missing", "empty", "present"} : ChangeMusic(m)
    \/ ChangeServiceAccount

Spec == Init /\ [][Next]_vars

(* --------------------------- repeated runs ------------------------------ *)
\* Runs repeated on a project whose tracked files nobody alters and whose
\* writes succeed; the operator starts a run whenever the last one has ended.
InitLive ==
    /\ \E m \in {"present", "missing"} : ProducerInitWith(m)
    /\ RetryIdle
    /\ WriterIdle
    /\ LimiterIdle
    /\ ChecksIdle

\* the last run that is started meets no failing stage and no failing gate
\* (every stage and the gate succeed in the end), and no write fails
NoMoreFailures ==
    /\ runs = MaxRuns => (failedStage' = "none" /\ gateIssues' <= 0 /\ exitCode' # 1)
    /\ writeFails' = writeFails

\* the operator acts on the recovery hints of a failed gate: the music
\* folder is put in place
RestoreMusic ==
    /\ pc = "exited"
    /\ music # "present"
    /\ music' = "present"
    /\ UNCHANGED <<verify_before_editor, service_account, diskVars, memVars, runVars,
                   pc, exitCode, runs, tampers, writeFails, utilVars>>

LiveSetupFails == \E manual \in BOOLEAN : SetupFails(manual) /\ runs + 1 < MaxRuns

LiveStartRun ==
    \E manual \in BOOLEAN :
        StartRun(manual) /\ (runs + 1 = MaxRuns => music = "present")

LiveScriptwriting == Scriptwriting /\ NoMoreFailures

LiveDirection == Direction /\ NoMoreFailures

LiveNarration == Narration /\ NoMoreFailures

LiveImageGeneration == ImageGeneration /\ NoMoreFailures

LiveGate == Gate /\ NoMoreFailures

LiveEditing == Editing /\ NoMoreFailures

LiveUpload == Upload /\ NoMoreFailures

NextLive ==
    \/ LiveSetupFails
    \/ LiveStartRun
    \/ LiveScriptwriting
    \/ LiveDirection
    \/ LiveNarration
    \/ LiveImageGeneration
    \/ LiveGate
    \/ LiveEditing
    \/ LiveUpload
    \/ RestoreMusic

SpecLive == InitLive /\ [][NextLive]_vars /\ WF_vars(NextLive)

(* ------------------- RetryHandler.execute_with_retry -------------------- *)
\* one call of execute_with_retry under every configuration of the policies
InitRetry ==
    /\ ProducerInit
    /\ verify_before_editor = TRUE
    /\ retry_policies \in [RetryableTypes -> PolicyChoices]
    /\ attempt = 0
    /\ raisedTypes = << >>
    /\ sleeps = << >>
    /\ retryResult = "running"
    /\ reraised = 0
    /\ WriterIdle
    /\ LimiterIdle
    /\ ChecksIdle

\* for attempt in range(self._get_max_retries(ErrorType.SYSTEM))
LoopBound(policies) == _get_max_retries(policies, "system")

\* raise e, with e the exception just appended to raisedTypes
RaiseCaught ==
    /\ retryResult' = "raised"
    /\ reraised' = Len(raisedTypes')
    /\ UNCHANGED <<attempt, sleeps>>

\* one iteration of the loop: func is called and returns or raises
RetryAttempt(outcome) ==
    /\ retryResult = "running"
    /\ attempt < LoopBound(retry_policies)
    /\ IF outcome = "ok"
       THEN /\ retryResult' = "returned"
            /\ UNCHANGED <<attempt, raisedTypes, sleeps, reraised>>
       ELSE /\ raisedTypes' = Append(raisedTypes, outcome)
            /\ IF outcome = "code_bug"
               THEN RaiseCaught
               ELSE IF ~is_retryable(outcome)
                    THEN RaiseCaught
                    ELSE IF attempt < _get_max_retries(retry_policies, outcome) - 1
                         THEN /\ sleeps' = Append(sleeps,
                                      _calculate_wait_time(retry_policies, outcome, attempt))
                              /\ attempt' = attempt + 1
                              /\ UNCHANGED <<retryResult, reraised>>
                         ELSE RaiseCaught
    /\ UNCHANGED <<retry_policies, producerVars, writerVars, limiterVars, checkVars>>

\* the loop ran out: raise last_exception (a TypeError when it is None)
RetryExhausted ==
    /\ retryResult = "running"
    /\ attempt >= LoopBound(retry_policies)
    /\ retryResult' = IF raisedTypes = << >> THEN "raised_none" ELSE "raised"
    /\ reraised' = Len(raisedTypes)
    /\ UNCHANGED <<retry_policies, attempt, raisedTypes, sleeps, producerVars, writerVars,
                   limiterVars, checkVars>>

NextRetry ==
    \/ \E outcome \in CallOutcomes : RetryAttempt(outcome)
    \/ RetryExhausted

SpecRetry == InitRetry /\ [][NextRetry]_vars

(* ---------------- AtomicFileWriter.write_json, step by step ------------- *)
\* the destination before the call: absent, or written by an earlier call
PrevDicts == {d \in PyDicts : Len(d) <= 1}

InitWriter ==
    /\ ProducerInit
    /\ verify_before_editor = TRUE
    /\ RetryIdle
    /\ writePc = "start"
    /\ prevFile \in {NoFile} \cup {WholeFile(json_dump(d)) : d \in PrevDicts}
    /\ destFile = prevFile
    /\ tempFile = NoFile
    /\ writeData \in PyDicts
    /\ writeRet = "none"
    /\ readResult = NoneResult
    /\ LimiterIdle
    /\ ChecksIdle

\* what the filesystem does to one operation of write_json
FsOutcomes == {"ok", "raises"}

\* except Exception: remove the temp file, return False
WriteJsonFails ==
    /\ tempFile' = NoFile
    /\ writeRet' = "False"
    /\ writePc' = "done"

\* with open(temp_path, 'w') as f: json.dump(data, f, ...)
WriteJsonDump(outcome) ==
    /\ writePc = "start"
    /\ IF outcome = "ok"
       THEN /\ tempFile' = WholeFile(json_dump(writeData))
            /\ writePc' = "dumped"
            /\ UNCHANGED writeRet
       ELSE WriteJsonFails
    /\ UNCHANGED <<destFile, prevFile, writeData, readResult, producerVars, retryVars, limiterVars, checkVars>>

\* if os.path.exists(file_path): os.remove(file_path), tried twice
WriteJsonRemove(outcome) ==
    /\ writePc = "dumped"
    /\ IF destFile.exists
       THEN IF outcome = "ok"
            THEN /\ destFile' = NoFile
                 /\ writePc' = "removed"
                 /\ UNCHANGED <<tempFile, writeRet>>
            ELSE /\ WriteJsonFails
                 /\ UNCHANGED destFile
       ELSE /\ outcome = "ok"
            /\ writePc' = "removed"
            /\ UNCHANGED <<destFile, tempFile, writeRet>>
    /\ UNCHANGED <<prevFile, writeData, readResult, producerVars, retryVars, limiterVars, checkVars>>

\* os.rename(temp_path, file_path); return True
WriteJsonRename(outcome) ==
    /\ writePc = "removed"
    /\ IF outcome = "ok"
       THEN /\ destFile' = tempFile
            /\ tempFile' = NoFile
            /\ writeRet' = "True"
            /\ writePc' = "done"
       ELSE /\ WriteJsonFails
            /\ UNCHANGED destFile
    /\ UNCHANGED <<prevFile, writeData, readResult, producerVars, retryVars, limiterVars, checkVars>>

\* the process is terminated inside write_json; a dump under way leaves a
\* temp file that is cut off
WriteJsonKilled ==
    /\ writePc \in {"start", "dumped", "removed"}
    /\ writePc' = "killed"
    /\ tempFile' \in IF writePc = "start" THEN {NoFile, PartialFile} ELSE {tempFile}
    /\ UNCHANGED <<destFile, prevFile, writeData, writeRet, readResult, producerVars,
                   retryVars, limiterVars, checkVars>>

\* read_json(file_path) right after write_json returned, or after a restart
ReadJson ==
    /\ writePc \in {"done", "killed"}
    /\ readResult' = read_json(destFile)
    /\ writePc' = "read"
    /\ UNCHANGED <<destFile, tempFile, prevFile, writeData, writeRet, producerVars,
                   retryVars, limiterVars, checkVars>>

NextWriter ==
    \/ \E outcome \in FsOutcomes : WriteJsonDump(outcome)
    \/ \E outcome \in FsOutcomes : WriteJsonRemove(outcome)
    \/ \E outcome \in FsOutcomes : WriteJsonRename(outcome)
    \/ WriteJsonKilled
    \/ ReadJson

SpecWriter == InitWriter /\ [][NextWriter]_vars

(* ---------------------- RateLimiter.wait_if_needed ---------------------- *)
InitLimiter ==
    /\ ProducerInit
    /\ verify_before_editor = TRUE
    /\ RetryIdle
    /\ WriterIdle
    /\ requests_per_minute \in 1..MaxRpm
    /\ cooldown_seconds \in CooldownChoices
    /\ LimiterNew
    /\ ChecksIdle

otherVars == <<producerVars, retryVars, writerVars, checkVars>>

limiterHistory == <<admits, lastCaller>>

limiterConfig == <<requests_per_minute, cooldown_seconds>>

\* time passes
Tick ==
    /\ clock + Quantum <= ConstructionTime + MaxTicks * Quantum
    /\ clock' = clock + Quantum
    /\ UNCHANGED <<limiterConfig, last_request_time, request_count, minute_start,
                   lockHolder, limPc, current_time, wakeAt, countRead, rolled,
                   windowAdmits, callsMade, limiterHistory, otherVars>>

\* a thread calls wait_if_needed and enters "with self._lock"
Acquire(t) ==
    /\ limPc[t] = "idle"
    /\ callsMade < MaxCalls
    /\ LockFree(lockHolder)
    /\ lockHolder' = t
    /\ limPc' = [limPc EXCEPT ![t] = "locked"]
    /\ rolled' = [rolled EXCEPT ![t] = FALSE]
    /\ callsMade' = callsMade + 1
    /\ UNCHANGED <<limiterConfig, last_request_time, request_count, minute_start, clock,
                   current_time, wakeAt, countRead, windowAdmits, limiterHistory, otherVars>>

\* current_time = time.time(); reset the counter every minute
ReadTime(t) ==
    /\ limPc[t] = "locked"
    /\ current_time' = [current_time EXCEPT ![t] = clock]
    /\ IF WindowOver(clock, minute_start)
       THEN /\ request_count' = 0
            /\ minute_start' = clock
            /\ windowAdmits' = 0
       ELSE UNCHANGED <<request_count, minute_start, windowAdmits>>
    /\ limPc' = [limPc EXCEPT ![t] = "cap"]
    /\ UNCHANGED <<limiterConfig, last_request_time, lockHolder, clock, wakeAt, countRead,
                   rolled, callsMade, limiterHistory, otherVars>>

\* the per-minute limit: time.sleep(wait_time) when it is reached
CheckCap(t) ==
    /\ limPc[t] = "cap"
    /\ IF /\ CapReached(request_count, requests_per_minute)
          /\ WindowWait(current_time[t], minute_start) > 0
       THEN /\ wakeAt' = [wakeAt EXCEPT ![t] = clock + WindowWait(current_time[t], minute_start)]
            /\ limPc' = [limPc EXCEPT ![t] = "sleep_cap"]
       ELSE /\ limPc' = [limPc EXCEPT ![t] = "cooldown"]
            /\ UNCHANGED wakeAt
    /\ UNCHANGED <<limiterConfig, last_request_time, request_count, minute_start,
                   lockHolder, clock, current_time, countRead, rolled, windowAdmits,
                   callsMade, limiterHistory, otherVars>>

\* the sleep is over: request_count = 0; minute_start = time.time()
WakeCap(t) ==
    /\ limPc[t] = "sleep_cap"
    /\ clock >= wakeAt[t]
    /\ request_count' = 0
    /\ minute_start' = clock
    /\ windowAdmits' = 0
    /\ rolled' = [rolled EXCEPT ![t] = TRUE]
    /\ limPc' = [limPc EXCEPT ![t] = "cooldown"]
    /\ UNCHANGED <<limiterConfig, last_request_time, lockHolder, clock, current_time,
                   wakeAt, countRead, callsMade, limiterHistory, otherVars>>

\* the cooldown: time_since_last is taken from the current_time read at entry
CheckCooldown(t) ==
    /\ limPc[t] = "cooldown"
    /\ LET wait_time == CooldownWait(cooldown_seconds, current_time[t] - last_request_time)
       IN  IF wait_time > 0
           THEN /\ wakeAt' = [wakeAt EXCEPT ![t] = clock + wait_time]
                /\ limPc' = [limPc EXCEPT ![t] = "sleep_cooldown"]
           ELSE /\ limPc' = [limPc EXCEPT ![t] = "count"]
                /\ UNCHANGED wakeAt
    /\ UNCHANGED <<limiterConfig, last_request_time, request_count, minute_start,
                   lockHolder, clock, current_time, countRead, rolled, windowAdmits,
                   callsMade, limiterHistory, otherVars>>

WakeCooldown(t) ==
    /\ limPc[t] = "sleep_cooldown"
    /\ clock >= wakeAt[t]
    /\ limPc' = [limPc EXCEPT ![t] = "count"]
    /\ UNCHANGED <<limiterConfig, last_request_time, request_count, minute_start,
                   lockHolder, clock, current_time, wakeAt, countRead, rolled,
                   windowAdmits, callsMade, limiterHistory, otherVars>>

\* self.request_count += 1, the read
CountRead(t) ==
    /\ limPc[t] = "count"
    /\ countRead' = [countRead EXCEPT ![t] = request_count]
    /\ limPc' = [limPc EXCEPT ![t] = "count_write"]
    /\ UNCHANGED <<limiterConfig, last_request_time, request_count, minute_start,
                   lockHolder, clock, current_time, wakeAt, rolled, windowAdmits,
                   callsMade, limiterHistory, otherVars>>

\* self.request_count += 1, the write
CountWrite(t) ==
    /\ limPc[t] = "count_write"
    /\ request_count' = countRead[t] + 1
    /\ windowAdmits' = windowAdmits + 1
    /\ limPc' = [limPc EXCEPT ![t] = "stamp"]
    /\ UNCHANGED <<limiterConfig, last_request_time, minute_start, lockHolder, clock,
                   current_time, wakeAt, countRead, rolled, callsMade, limiterHistory, otherVars>>

\* self.last_request_time = time.time(); the lock is released and the call returns
Admit(t) ==
    /\ limPc[t] = "stamp"
    /\ last_request_time' = clock
    /\ lockHolder' = IF lockHolder = t THEN "none" ELSE lockHolder
    /\ limPc' = [limPc EXCEPT ![t] = "idle"]
    /\ admits' = admits + 1
    /\ lastCaller' = t
    /\ UNCHANGED <<limiterConfig, request_count, minute_start, clock, current_time,
                   wakeAt, countRead, rolled, windowAdmits, callsMade, otherVars>>

NextLimiter ==
    \/ Tick
    \/ \E t \in Threads : Acquire(t)
    \/ \E t \in Threads : ReadTime(t)
    \/ \E t \in Threads : CheckCap(t)
    \/ \E t \in Threads : WakeCap(t)
    \/ \E t \in Threads : CheckCooldown(t)
    \/ \E t \in Threads : WakeCooldown(t)
    \/ \E t \in Threads : CountRead(t)
    \/ \E t \in Threads : CountWrite(t)
    \/ \E t \in Threads : Admit(t)

SpecLimiter == InitLimiter /\ [][NextLimiter]_vars

(* -------------------- ErrorClassifier.classify_error -------------------- *)
InitClassifier ==
    /\ ProducerInit
    /\ verify_before_editor = TRUE
    /\ RetryIdle
    /\ WriterIdle
    /\ LimiterIdle
    /\ \E q \in QuotaKeywordChoices : ClassifierNew(q, "start")
    /\ ValidatorNew("idle")
    /\ StageIdle
    /\ SetupIdle

\* the texts error messages are made of
MessageParts ==
    {"", "Quota exceeded", "Daily limit exceeded", "Connection reset by peer",
     "Permission denied", "Out of MEMORY", "No such file or directory", "invalid literal"}

ErrorMessages == {a \o " " \o b : a, b \in MessageParts}

\* an exception e reaches the except clause of execute_with_retry
RaiseError(message, type) ==
    /\ clsPc = "start"
    /\ errMessage' = message
    /\ errType' = type
    /\ errOrigin' = "call"
    /\ clsPc' = "raised"
    /\ UNCHANGED <<quota_keywords, classified, producerVars, retryVars, writerVars,
                   limiterVars, validatorVars, stageVars, setupVars>>

\* the command of a stage times out in safe_subprocess_run, and run_command
\* raises Exception with the text returned
StageTimesOut(stage, project) ==
    /\ clsPc = "start"
    /\ errMessage' = run_command_error(stage,
                         safe_subprocess_run_timeout(StageCommand(stage, project)))
    /\ errType' = "Exception"
    /\ errOrigin' = "timeout"
    /\ clsPc' = "raised"
    /\ UNCHANGED <<quota_keywords, classified, producerVars, retryVars, writerVars,
                   limiterVars, validatorVars, stageVars, setupVars>>

\* error_type = self.error_classifier.classify_error(str(e), type(e))
Classify ==
    /\ clsPc = "raised"
    /\ classified' = classify_error(quota_keywords, errMessage, errType)
    /\ clsPc' = "classified"
    /\ UNCHANGED <<quota_keywords, errMessage, errType, errOrigin, producerVars, retryVars,
                   writerVars, limiterVars, validatorVars, stageVars, setupVars>>

NextClassifier ==
    \/ \E message \in ErrorMessages, type \in ExceptionTypes \cup {NoType} :
          RaiseError(message, type)
    \/ \E stage \in Stages, project \in Projects : StageTimesOut(stage, project)
    \/ Classify

SpecClassifier == InitClassifier /\ [][NextClassifier]_vars

(* ----------------- PreEditorValidator on a project ---------------------- *)
\* the files a project may hold when the gate is reached: a plan or none,
\* and any of the .wav and .png files, empty or generated, in folders that exist
GateFiles ==
    {fs \in [Paths -> {Absent, 0, Generated, MaxVersion}] :
        /\ fs[script_path] = Generated
        /\ fs[final_video_path] = Absent
        /\ \A p \in AudioPaths \cup ImagePaths : fs[p] \in {Absent, 0, Generated}}

InitValidator ==
    /\ verify_before_editor \in BOOLEAN
    /\ music \in {"missing", "empty", "present"}
    /\ service_account = TRUE
    /\ files \in GateFiles
    /\ folders \in SUBSET {audio_folder, image_folder}
    /\ \A p \in AudioPaths \cup ImagePaths : files[p] # Absent => p[1] \in folders
    /\ projectDir = TRUE
    /\ statusFile = NoJsonFile(EmptySteps)
    /\ integrityFile = NoJsonFile(EmptyHashes)
    /\ pc = "idle"
    /\ is_manual = TRUE
    /\ status = EmptySteps
    /\ hash_status = EmptyHashes
    /\ exitCode = NotExited
    /\ runs = 0 /\ tampers = 0 /\ writeFails = 0
    /\ loadedStatus = EmptySteps
    /\ recordMatchedAtStart = TRUE
    /\ resetDecision = "none"
    /\ calls = << >>
    /\ succeeded = {}
    /\ failedStage = "none"
    /\ gateIssues = -1
    /\ assetsValidAtGate = FALSE
    /\ startStatusFile = NoJsonFile(EmptySteps)
    /\ startIntegrityFile = NoJsonFile(EmptyHashes)
    /\ writeCalls = 0
    /\ finished = FALSE
    /\ RetryIdle
    /\ WriterIdle
    /\ LimiterIdle
    /\ ClassifierNew(DefaultQuotaKeywords, "idle")
    /\ ValidatorNew("start")
    /\ StageIdle
    /\ SetupIdle

\* validate_all_assets(project_file_path, audio_folder, image_folder)
ValidateAll ==
    /\ valPc = "start"
    /\ valResult' = validate_all_assets(verify_before_editor, files, folders, music)
    /\ checksRun' = checks_run(verify_before_editor, files)
    /\ valPc' = "validated"
    /\ UNCHANGED <<hints, producerVars, retryVars, writerVars, limiterVars, classifierVars,
                   stageVars, setupVars>>

\* suggest_recovery_actions(issues) on the issues returned
SuggestRecovery ==
    /\ valPc = "validated"
    /\ hints' = suggest_recovery_actions(valResult.issues)
    /\ valPc' = "suggested"
    /\ UNCHANGED <<valResult, checksRun, producerVars, retryVars, writerVars, limiterVars,
                   classifierVars, stageVars, setupVars>>

NextValidator ==
    \/ ValidateAll
    \/ SuggestRecovery

SpecValidator == InitValidator /\ [][NextValidator]_vars


(* ------------- run_module_with_retry on one external stage -------------- *)
\* the configuration sets the system_errors policy only, which every type uses
StagePolicies ==
    {policies \in [RetryableTypes -> PolicyChoices] :
        \A t \in RetryableTypes \ {"system"} : policies[t] = EmptyPolicy}

\* one call of run_module_with_retry: execute_with_retry calls run_command,
\* which calls safe_subprocess_run, which calls subprocess.run
InitStage ==
    /\ ProducerInit
    /\ verify_before_editor = TRUE
    /\ retry_policies \in StagePolicies
    /\ attempt = 0
    /\ raisedTypes = << >>
    /\ sleeps = << >>
    /\ retryResult = "running"
    /\ reraised = 0
    /\ WriterIdle
    /\ LimiterIdle
    /\ ClassifierNew(DefaultQuotaKeywords, "idle")
    /\ ValidatorNew("idle")
    /\ \E stage \in Stages, project \in Projects : StageNew(stage, project)
    /\ SetupIdle

\* return func(*args, **kwargs): run_command enters safe_subprocess_run
RunCommand ==
    /\ retryResult = "running"
    /\ attempt < LoopBound(retry_policies)
    /\ subPc # "calling"
    /\ commandRuns = Len(raisedTypes)
    /\ commandRuns' = commandRuns + 1
    /\ subPc' = "calling"
    /\ subAttempt' = 0
    /\ UNCHANGED <<module_name, stageProject, subResult, launches>>
    /\ UNCHANGED <<producerVars, retryVars, writerVars, limiterVars, classifierVars,
                   validatorVars, setupVars>>

\* one iteration of the loop of safe_subprocess_run: subprocess.run(...)
SubprocessRun(outcome) ==
    /\ subPc = "calling"
    /\ launches' = launches + 1
    /\ IF SubprocessRetries(subAttempt, outcome)
       THEN /\ subAttempt' = subAttempt + 1
            /\ UNCHANGED <<subPc, subResult>>
       ELSE /\ subResult' = SubprocessReturn(outcome, module_name, stageProject)
            /\ subPc' = "returned"
            /\ UNCHANGED subAttempt
    /\ UNCHANGED <<module_name, stageProject, commandRuns>>
    /\ UNCHANGED <<producerVars, retryVars, writerVars, limiterVars, classifierVars,
                   validatorVars, setupVars>>

\* run_command returns the output or raises Exception(f"... failed: ..."),
\* and execute_with_retry returns, sleeps or re-raises
CommandReturns ==
    /\ subPc = "returned"
    /\ commandRuns = Len(raisedTypes) + 1
    /\ IF subResult.success
       THEN RetryAttempt("ok")
       ELSE RetryAttempt(classify_error(quota_keywords,
                             run_command_error(module_name, subResult.output),
                             "Exception"))

NextStage ==
    \/ RunCommand
    \/ \E outcome \in ProcessOutcomes : SubprocessRun(outcome)
    \/ CommandReturns
    \/ RetryExhausted

SpecStage == InitStage /\ [][NextStage]_vars

(* ------------------ setup_project and the first step -------------------- *)
\* one orchestrator process, from setup_project to the scriptwriting block,
\* in a channel folder that may hold earlier projects
InitSetup ==
    /\ ProducerInit
    /\ verify_before_editor = TRUE
    /\ RetryIdle
    /\ WriterIdle
    /\ LimiterIdle
    /\ ClassifierNew(DefaultQuotaKeywords, "idle")
    /\ ValidatorNew("idle")
    /\ StageIdle
    /\ \E dirs \in [ProjectPaths -> DirStates] : SetupNew(dirs, "start")

setupRest == <<cfgVars, diskVars, hash_status, runVars, pc, exitCode, runs, tampers,
               writeFails, retryVars, writerVars, limiterVars, classifierVars,
               validatorVars, stageVars>>

\* setup_project returns False
SetupReturnsFalse ==
    /\ setupPc' = "returned"
    /\ UNCHANGED <<projectDirs, project_path, startedAs>>

\* os.makedirs(self.project_path, exist_ok=True); return True
SetupReturnsTrue(path, how) ==
    /\ project_path' = path
    /\ startedAs' = how
    /\ projectDirs' = IF projectDirs[path].exists THEN projectDirs
                      ELSE [projectDirs EXCEPT ![path] = EmptyDir]
    /\ setupPc' = "resolved"

\* manual mode, the operator continues one of the incomplete projects
SetupResume(manual, path) ==
    /\ setupPc = "start"
    /\ manual
    /\ path \in check_incomplete_projects(projectDirs)
    /\ is_manual' = manual
    /\ channel_name' = SelectedChannel
    /\ SetupReturnsTrue(path, "resume")
    /\ UNCHANGED <<video_topic, target_char_count, status, setupLoaded, scriptwriterArgs>>
    /\ UNCHANGED setupRest

\* manual mode, no incomplete project or "0. Start new project": the
\* operator types a topic and a character count
SetupNewManual(manual, topic_input, count_input) ==
    /\ setupPc = "start"
    /\ manual
    /\ is_manual' = manual
    /\ channel_name' = SelectedChannel
    /\ video_topic' = str_strip(topic_input)
    /\ IF ~IsIntLiteral(str_strip(count_input))
       THEN /\ UNCHANGED target_char_count
            /\ SetupReturnsFalse
       ELSE /\ target_char_count' = py_int(str_strip(count_input))
            /\ IF video_topic' = "" \/ target_char_count' = 0
               THEN SetupReturnsFalse
               ELSE SetupReturnsTrue(ProjectPath(ChannelSlug, video_topic'), "new")
    /\ UNCHANGED <<status, setupLoaded, scriptwriterArgs>>
    /\ UNCHANGED setupRest

\* scheduled mode: the task of the day, if weekly_guide.json has one
SetupScheduled(manual, task) ==
    /\ setupPc = "start"
    /\ ~manual
    /\ is_manual' = manual
    /\ IF task = NoTask
       THEN /\ SetupReturnsFalse
            /\ UNCHANGED <<channel_name, video_topic, target_char_count>>
       ELSE /\ channel_name' = task.channel_name
            /\ video_topic' = task.video_topic
            /\ target_char_count' = task.target_char_count
            /\ SetupReturnsTrue(ProjectPath(ChannelSlug, task.video_topic), "new")
    /\ UNCHANGED <<status, setupLoaded, scriptwriterArgs>>
    /\ UNCHANGED setupRest

\* shutil.rmtree(project_path); os.makedirs(project_path); clear the records
SetupReset ==
    /\ projectDirs' = [projectDirs EXCEPT ![project_path] = EmptyDir]
    /\ status' = EmptySteps
    /\ setupPc' = "steps"

\* load_status, load_hash_status and the integrity check
SetupLoad ==
    /\ setupPc = "resolved"
    /\ LET st == projectDirs[project_path].completed_steps
       IN  /\ setupLoaded' = st
           /\ IF st # << >> /\ ~projectDirs[project_path].intact
              THEN IF is_manual
                   THEN /\ status' = st
                        /\ setupPc' = "prompt"
                        /\ UNCHANGED projectDirs
                   ELSE SetupReset
              ELSE /\ status' = st
                   /\ setupPc' = "steps"
                   /\ UNCHANGED projectDirs
    /\ UNCHANGED <<is_manual, channel_name, video_topic, target_char_count, project_path,
                   startedAs, scriptwriterArgs>>
    /\ UNCHANGED setupRest

\* the operator's answer to "Files modified. Reset project? (y/N)"
SetupAnswer(answer) ==
    /\ setupPc = "prompt"
    /\ IF Lower(answer) = "y"
       THEN SetupReset
       ELSE /\ setupPc' = "returned"
            /\ UNCHANGED <<projectDirs, status>>
    /\ UNCHANGED <<is_manual, channel_name, video_topic, target_char_count, project_path,
                   startedAs, setupLoaded, scriptwriterArgs>>
    /\ UNCHANGED setupRest

\* Step 1: the scriptwriter is launched unless scriptwriting is recorded
SetupScriptwriting ==
    /\ setupPc = "steps"
    /\ IF is_step_complete("scriptwriting")
       THEN /\ setupPc' = "skipped"
            /\ UNCHANGED scriptwriterArgs
       ELSE /\ setupPc' = "launched"
            /\ scriptwriterArgs' =
                  [channel_name |-> channel_name, video_topic |-> video_topic,
                   target_char_count |-> target_char_count,
                   output_path |-> project_path \o "/script.txt"]
    /\ UNCHANGED <<is_manual, status, projectDirs, channel_name, video_topic,
                   target_char_count, project_path, startedAs, setupLoaded>>
    /\ UNCHANGED setupRest

NextSetup ==
    \/ \E manual \in BOOLEAN, path \in ProjectPaths : SetupResume(manual, path)
    \/ \E manual \in BOOLEAN, topic_input \in TopicInputs, count_input \in CountInputs :
          SetupNewManual(manual, topic_input, count_input)
    \/ \E manual \in BOOLEAN, task \in WeeklyTasks \cup {NoTask} : SetupScheduled(manual, task)
    \/ SetupLoad
    \/ \E answer \in Answers : SetupAnswer(answer)
    \/ SetupScriptwriting

SpecSetup == InitSetup /\ [][NextSetup]_vars

(* ------------------------------ properties ------------------------------ *)
StepsLoaded == Range(loadedStatus)

StagesLaunched == Range(calls) \cap Stages

\* the step that launches a stage
OwnerStep(stage) == CHOOSE s \in StepNames : stage \in StagesOf(s)

\* the run has reset the project
ResetDone == resetDecision \in {"forced", "confirmed"}

\* C1: a step that is in the StepStatus loaded at the start of a run, while
\* every IntegrityRecord entry matches the file on disk, has none of its
\* external stages launched during that run.
C1_CompletedStepNotRerun ==
    \A s \in StepNames :
        (s \in StepsLoaded /\ recordMatchedAtStart) => StagesOf(s) \cap StagesLaunched = {}

\* a resumed run passed over scriptwriting and launched the director
C1_Witness ==
    /\ "scriptwriting" \in StepsLoaded
    /\ recordMatchedAtStart
    /\ "director" \in StagesLaunched

\* C2: a run that starts with all five steps recorded and all hashes matching
\* launches no external stage and calls write_json on neither status.json nor
\* integrity.json, so both files are as they were at the start of the run.
C2_CompletedProjectIdempotent ==
    (StepsLoaded = StepNames /\ recordMatchedAtStart) =>
        /\ StagesLaunched = {}
        /\ writeCalls = 0
        /\ statusFile = startStatusFile
        /\ integrityFile = startIntegrityFile

\* a run on a completed project went through the gate to its end
C2_Witness ==
    /\ StepsLoaded = StepNames
    /\ recordMatchedAtStart
    /\ "gate" \in Range(calls)
    /\ pc = "exited"

C4_ResetLeavesNothing ==
    /\ (ResetDone /\ calls = << >>) =>
          /\ status = EmptySteps
          /\ hash_status = EmptyHashes
          /\ projectDir
          /\ files = NoFiles
          /\ folders = {}
          /\ ~statusFile.exists
          /\ ~integrityFile.exists
          /\ pc \in {"scriptwriting", "exited"}
          /\ pc = "exited" => exitCode = KilledExit
    /\ (ResetDone /\ calls # << >>) => calls[1] = "scriptwriter"

\* a run that reset a project holding generated assets launched the scriptwriter
C4_Witness ==
    /\ ResetDone
    /\ "asset_production" \in StepsLoaded
    /\ calls = <<"scriptwriter">>

\* C5: once the gate has returned a non-empty issue list the run is over: the
\* gate check is the last thing the run did, the process exits, and the gate
\* step changes neither StepStatus nor IntegrityRecord, in memory or on disk.
C5_GateFailureEndsRun ==
    /\ [](gateIssues > 0 =>
            /\ pc = "exited"
            /\ exitCode = GateFailureExit
            /\ calls[Len(calls)] = "gate"
            /\ ~finished)
    /\ [][gateIssues' > 0 /\ pc = "gate" =>
            UNCHANGED <<status, hash_status, statusFile, integrityFile>>]_vars

\* the gate found issues in a run that had launched stages before it
C5_Witness ==
    /\ gateIssues > 0
    /\ StagesLaunched # {}
    /\ pc = "exited"

\* the run is past the asset-production block
PastGate ==
    \/ pc \in {"editing", "upload"}
    \/ StagesLaunched \cap {"editor", "uploader"} # {}
    \/ finished

\* C6: every run that gets past asset production has called the gate, also
\* when editing or upload is already recorded, and the gate step adds nothing
\* to StepStatus.
C6_GateAlwaysRun ==
    /\ [](PastGate => "gate" \in Range(calls))
    /\ [][pc = "gate" => UNCHANGED <<status, statusFile>>]_vars

\* a run with editing already recorded called the gate and went on
C6_Witness ==
    /\ "editing" \in StepsLoaded
    /\ ~ResetDone
    /\ "gate" \in Range(calls)
    /\ pc = "upload"

\* C7: whenever the editor is launched, every asset the plan requires existed
\* and passed AssetVerifier at the gate check of that run.
C7_EditorOnlyWithValidAssets ==
    "editor" \in StagesLaunched => assetsValidAtGate

\* a step was recorded by this run, not loaded from status.json
RecordedThisRun(s) ==
    s \in Range(status) /\ (s \notin StepsLoaded \/ ResetDone)

\* C8: when a stage fails permanently the run ends with that stage as its
\* last launch, and the step owning the stage is in StepStatus neither in
\* memory nor on disk; asset_production is recorded by a run only when both
\* the narrator and the image_director succeeded in it.
C8_StageFailureAborts ==
    /\ failedStage # "none" =>
          /\ pc = "exited"
          /\ calls[Len(calls)] = failedStage
          /\ OwnerStep(failedStage) \notin Range(status)
          /\ OwnerStep(failedStage) \notin Range(statusFile.data)
          /\ ~finished
    /\ RecordedThisRun("asset_production") =>
          {"narrator", "image_director"} \subseteq succeeded

\* the image stage failed after the narrator had succeeded
C8_Witness ==
    /\ failedStage = "image_director"
    /\ "narrator" \in succeeded
    /\ pc = "exited"

\* C9: the process exits with 0 when the pipeline ran to its end, and with a
\* non-zero code when a stage failed permanently or the gate failed.
C9_ExitCodes ==
    /\ finished => (pc = "exited" /\ exitCode = 0)
    /\ failedStage # "none" => (pc = "exited" /\ exitCode # 0)
    /\ gateIssues > 0 => (pc = "exited" /\ exitCode # 0)

\* a run ended at the gate with issues
C9_Witness ==
    /\ gateIssues > 0
    /\ pc = "exited"
    /\ exitCode = 1

\* the step in which a run resets the project
ResetStep ==
    \/ resetDecision' = "forced" /\ runs' = runs + 1
    \/ resetDecision' = "confirmed" /\ pc = "prompt"

C11_NonRetryableRaisedAtOnce ==
    \A i \in 1..Len(raisedTypes) :
        raisedTypes[i] \in {"code_bug", "config"} =>
            /\ i = Len(raisedTypes)
            /\ retryResult = "raised"
            /\ reraised = i
            /\ Len(sleeps) = i - 1
            /\ attempt = i - 1

\* a CONFIG error at the first attempt was re-raised
C11_Witness ==
    /\ raisedTypes = <<"config">>
    /\ retryResult = "raised"
    /\ sleeps = << >>

\* C12 as stated: under every configuration, an operation that has raised only
\* NETWORK errors, at most max_retries(NETWORK)-1 of them, has not been given
\* up, and the sleeps so far are the NETWORK backoff schedule.
C12_NetworkRetriesThenSuccess ==
    (/\ \A i \in 1..Len(raisedTypes) : raisedTypes[i] = "network"
     /\ Len(raisedTypes) <= _get_max_retries(retry_policies, "network") - 1) =>
        /\ retryResult \in {"running", "returned"}
        /\ sleeps = BackoffSchedule(retry_policies, "network", Len(raisedTypes))

\* C13 as stated: a call that ended by re-raising after failures of one
\* retryable type T only has made exactly max_retries(T) attempts and has not
\* slept after the last one.
C13_AttemptsEqualTypeCap ==
    \A T \in RetryableTypes :
        (/\ retryResult = "raised"
         /\ raisedTypes # << >>
         /\ \A i \in 1..Len(raisedTypes) : raisedTypes[i] = T) =>
            /\ Len(raisedTypes) = _get_max_retries(retry_policies, T)
            /\ Len(sleeps) = Len(raisedTypes) - 1
            /\ reraised = Len(raisedTypes)

\* C14 as stated: after write_json(p, d) returned True, read_json(p) returns a
\* value deep-equal to d, for every d that json.dump accepts.
C14_RoundTripAnyValue ==
    (writePc = "read" /\ writeRet = "True") =>
        (~readResult.none /\ DeepEqual(readResult.value, writeData))

\* C14, amended: after write_json(p, d) returned True, read_json(p) returns a
\* value deep-equal to d, for every d whose keys are strings and that holds no
\* tuple, whether or not p existed before.
C14_RoundTripJsonNative ==
    (writePc = "read" /\ writeRet = "True" /\ JsonNative(writeData)) =>
        (~readResult.none /\ DeepEqual(readResult.value, writeData))

\* a dict with a number in it replaced another document and was read back
C14_Witness ==
    /\ writePc = "read"
    /\ writeRet = "True"
    /\ JsonNative(writeData)
    /\ \E i \in 1..Len(writeData) : writeData[i][2][1] = "int"
    /\ prevFile.exists
    /\ prevFile.text # json_dump(writeData)

\* C15 as stated: when the destination existed before the call, read_json of
\* it yields the previous or the new content at every point of write_json,
\* never None; and after write_json returned False the temp file is gone.
C15_WriteIsAtomic ==
    /\ prevFile.exists =>
          /\ ~read_json(destFile).none
          /\ \/ read_json(destFile).value = read_json(prevFile).value
             \/ read_json(destFile).value = json_load(json_dump(writeData))
    /\ writeRet = "False" => ~tempFile.exists

\* C16 as stated: when the orchestrator process is terminated, during a stage
\* or inside a write of complete_step, every step that load_status found in
\* status.json before is still found by the load_status of the next run.
C16_InterruptionKeepsSteps ==
    [][exitCode' = KilledExit =>
          Range(load_status(statusFile)) \subseteq Range(load_status(statusFile'))]_vars

\* the first step, in pipeline order, that is not in a completed_steps list
FirstMissing(st) ==
    Steps[CHOOSE i \in 1..Len(Steps) :
            /\ Steps[i] \notin Range(st)
            /\ \A j \in 1..(i - 1) : Steps[j] \in Range(st)]

\* the step by which a run is aborted: sys.exit(1) after a failed stage or gate
AbortStep == pc # "exited" /\ pc' = "exited" /\ exitCode' = 1

\* C17: a run aborted by a failed stage or a failed gate leaves status.json and
\* integrity.json as the last completed step wrote them, removes no file of
\* the project and changes no recorded file; a run that does not reset starts
\* with the stage of the first step missing from the StepStatus it loaded (or
\* with the gate, when the first three steps are recorded); and when tracked
\* files are not altered and stages and gate succeed in the end, repeated runs
\* reach a status.json that holds 'upload'.
C17_AbortedRunsResumeAndFinish ==
    /\ [][AbortStep =>
            /\ statusFile' = statusFile
            /\ integrityFile' = integrityFile
            /\ load_status(statusFile') = status
            /\ projectDir'
            /\ \A p \in Paths :
                  /\ files[p] # Absent => files'[p] # Absent
                  /\ integrityFile.data[p] # NoEntry => files'[p] = files[p]]_vars
    /\ []((calls # << >> /\ ~ResetDone) =>
            IF calls[1] = "gate"
            THEN {"scriptwriting", "direction", "asset_production"} \subseteq StepsLoaded
            ELSE /\ StepsLoaded # StepNames
                 /\ OwnerStep(calls[1]) = FirstMissing(loadedStatus))
    /\ <>("upload" \in Range(load_status(statusFile)))

\* a run resumed a project that an earlier run had left unfinished, and
\* completed it
C17_Witness ==
    /\ finished
    /\ loadedStatus # << >>
    /\ "upload" \notin StepsLoaded
    /\ exitCode = 0
    /\ "upload" \in Range(load_status(statusFile))

\* the step by which a call of wait_if_needed returns
AdmitStep == admits' = admits + 1

\* C18: between two resets of the counter at most requests_per_minute calls
\* are counted; a call that finds the cap reached sleeps until the window
\* that began at minute_start is over, the counter is reset then, and the call
\* is counted as the first of the new window.
C18_CapPerWindow ==
    /\ [](windowAdmits <= requests_per_minute)
    /\ [][\A t \in Threads :
            (limPc[t] = "sleep_cap" /\ limPc'[t] # "sleep_cap") =>
                /\ clock >= minute_start + WindowSeconds
                /\ request_count' = 0
                /\ minute_start' = clock]_vars
    /\ [][\A t \in Threads :
            (AdmitStep /\ limPc[t] = "stamp" /\ rolled[t]) =>
                (windowAdmits = 1 /\ request_count = 1)]_vars

\* a call that slept for the window was admitted as the first of the new one
C18_Witness ==
    \E t \in Threads :
        /\ rolled[t]
        /\ limPc[t] = "idle"
        /\ admits > requests_per_minute
        /\ windowAdmits = 1

\* C19: a call of wait_if_needed returns at least cooldown_seconds after the
\* call before it returned, also when it first slept for the window.
C19_Cooldown ==
    [][(AdmitStep /\ admits >= 1) => clock - last_request_time >= cooldown_seconds]_vars

\* with a cooldown set, a call that slept for the window returned after
\* another call
C19_Witness ==
    \E t \in Threads :
        /\ cooldown_seconds > 0
        /\ rolled[t]
        /\ limPc[t] = "idle"
        /\ admits >= 2
        /\ last_request_time = clock

\* C20: at most one thread is inside wait_if_needed past the lock, so no
\* increment is lost, request_count is the number of calls counted in the
\* current window, and the cap and the cooldown hold in every interleaving.
C20_MutualExclusion ==
    /\ [](Cardinality({t \in Threads : limPc[t] # "idle"}) <= 1)
    /\ [](request_count = windowAdmits)
    /\ [](request_count <= requests_per_minute)
    /\ [][(AdmitStep /\ admits >= 1) =>
             clock >= last_request_time + cooldown_seconds]_vars

\* a thread is counted second in a window whose first call came from the
\* other thread, which has called again and is kept out by the lock
C20_Witness ==
    /\ lastCaller = "t1"
    /\ lockHolder = "t2"
    /\ limPc["t2"] = "stamp"
    /\ limPc["t1"] = "idle"
    /\ callsMade < MaxCalls
    /\ request_count = 2
    /\ windowAdmits = 2

\* the keyword sets in the order of their priority, and their error types
KeywordSetsMatched ==
    LET error_str == str_lower(errMessage)
        sets == <<quota_keywords, network_keywords, disk_keywords, system_keywords>>
    IN  {i \in 1..4 : AnyKeyword(sets[i], error_str)}

KeywordTypes == <<"quota", "network", "disk", "system">>

\* C23: a message that holds keywords of one or more sets is classified by
\* the matching set that comes first in quota, network, disk, system, whatever
\* the exception type is.
C23_KeywordPriority ==
    (clsPc = "classified" /\ KeywordSetsMatched # {}) =>
        \E i \in KeywordSetsMatched :
            /\ \A j \in KeywordSetsMatched : i <= j
            /\ classified = KeywordTypes[i]

\* a message with a disk keyword before a network keyword, raised as a
\* MemoryError, was classified NETWORK
C23_Witness ==
    /\ clsPc = "classified"
    /\ errMessage = "Permission denied Connection reset by peer"
    /\ errType = "MemoryError"
    /\ KeywordSetsMatched = {2, 3}
    /\ classified = "network"

\* the error type the specification gives to an exception category
CategoryType(type) ==
    CASE type \in {"TimeoutError", "ConnectionError", "ConnectionResetError"} -> "network"
      [] type \in {"OSError", "PermissionError"}                            -> "disk"
      [] type = "MemoryError"                                               -> "system"
      [] type \in {"TypeError", "KeyError", "ValueError", "FileNotFoundError",
                   "JSONDecodeError"}                                       -> "config"
      [] OTHER                                                              -> "code_bug"

\* C24: when no keyword matches, the error type is the one of the exception
\* category: timeout/connection NETWORK, OS/IO/permission DISK, out-of-memory
\* SYSTEM, malformed input, missing key, bad value, file not found and
\* malformed data CONFIG, anything else or no exception type CODE_BUG.
C24_TypeFallback ==
    (clsPc = "classified" /\ KeywordSetsMatched = {}) => classified = CategoryType(errType)

\* C25: the error of a stage command that timed out is classified as a
\* retryable error.
C25_TimeoutIsRetryable ==
    (clsPc = "classified" /\ errOrigin = "timeout") => is_retryable(classified)

\* validate_all_assets has returned
Validated == valPc \in {"validated", "suggested"}

\* the segments whose required .wav fails verify_audio_file
FailingAudio ==
    {seg \in Range(PlanSegments(files[project_file_path])) :
        ~verify_audio_file(files, AudioPath(seg)).valid}

\* C21: for a well-formed plan, an existing audio folder, a valid music
\* folder and every required image valid, the issue list holds exactly one
\* audio issue for each required .wav that fails verify_audio_file and nothing
\* else, and ok is false iff the list is not empty.
C21_OneIssuePerFailingAudio ==
    (/\ Validated
     /\ _validate_project_file(files) = << >>
     /\ audio_folder \in folders
     /\ music = "present"
     /\ \A seg \in Range(PlanSegments(files[project_file_path])) :
            verify_image_file(files, ImagePath(seg)).valid)
    => /\ Len(valResult.issues) = Cardinality(FailingAudio)
       /\ \A seg \in FailingAudio :
             \E i \in 1..Len(valResult.issues) :
                 valResult.issues[i][1] = "Audio" /\ valResult.issues[i][3] = seg
       /\ valResult.ok = (valResult.issues = << >>)

\* C22: validate_all_assets leaves checks out only when the plan-file check
\* fails, and then runs none of the others; when the plan-file check passes,
\* the audio, image and music checks all run and the issue list is their
\* issues one after the other; ok is true iff the list is empty.
C22_ShortCircuitOnlyOnPlan ==
    Validated =>
        LET plan_issues == _validate_project_file(files)
            required == _extract_required_assets(files[project_file_path])
        IN  /\ checksRun # AllChecks => plan_issues # << >>
            /\ plan_issues # << >> =>
                  (checksRun = <<"project">> /\ valResult.issues = plan_issues)
            /\ plan_issues = << >> =>
                  /\ checksRun = AllChecks
                  /\ valResult.issues =
                        _validate_audio_assets(files, folders, required.audio)
                        \o _validate_image_assets(files, folders, required.images)
                        \o _validate_music_assets(music)
            /\ valResult.ok = (valResult.issues = << >>)

\* the issues of a list that one check produces
IssuesOf(check) ==
    {valResult.issues[i] : i \in 1..Len(valResult.issues)} \cap
    CASE check = "audio"   -> {i \in Range(valResult.issues) : i[1] = "Audio"}
      [] check = "image"   -> {i \in Range(valResult.issues) : i[1] = "Image"}
      [] check = "music"   -> Range(_validate_music_assets(music))
      [] check = "project" -> Range(_validate_project_file(files))

\* C26: the suggestions hold the hint of every category of issue in the
\* list: run narrator for an audio issue, run image_director for an image
\* issue, add music for a music-folder issue (missing, or without a music
\* file), regenerate plan for a plan issue; a list that is not empty gives at
\* least one hint.
C26_HintPerCategory ==
    valPc = "suggested" =>
        /\ IssuesOf("audio") # {} => "run narrator" \in Range(hints)
        /\ IssuesOf("image") # {} => "run image_director" \in Range(hints)
        /\ IssuesOf("music") # {} => "add music" \in Range(hints)
        /\ IssuesOf("project") # {} => "regenerate plan" \in Range(hints)
        /\ valResult.issues # << >> => hints # << >>

\* the place of a stage, or of the gate, in the fixed order
StageOrder(call) ==
    CASE call = "scriptwriter"   -> 1
      [] call = "director"       -> 2
      [] call = "narrator"       -> 3
      [] call = "image_director" -> 4
      [] call = "gate"           -> 5
      [] call = "editor"         -> 6
      [] call = "uploader"       -> 7

\* C27: within a run the stages and the gate are called in the order
\* scriptwriter, director, narrator, image_director, gate, editor, uploader,
\* each at most once, and the editor only after the gate of that run has
\* passed.
C27_FixedStageOrder ==
    /\ \A i, j \in 1..Len(calls) : i < j => StageOrder(calls[i]) < StageOrder(calls[j])
    /\ \A j \in 1..Len(calls) :
          calls[j] = "editor" => (gateIssues = 0 /\ \E i \in 1..(j - 1) : calls[i] = "gate")

\* a run launched every stage, with the gate between the assets and the editor
C27_Witness ==
    calls = <<"scriptwriter", "director", "narrator", "image_director", "gate",
              "editor", "uploader">>

\* C28: between the steps of a run and at its end, status.json holds every
\* step that completed_steps holds in memory, whatever the write_json calls
\* did.
C28_CompletionPersisted ==
    (pc # "idle" /\ exitCode # KilledExit) =>
        Range(status) \subseteq Range(load_status(statusFile))

\* the output file of a step whose hash is recorded
TrackedOutput(step) ==
    CASE step = "scriptwriting" -> script_path
      [] step = "direction"     -> project_file_path
      [] step = "editing"       -> final_video_path

\* C29: whenever status.json holds scriptwriting, direction or editing,
\* integrity.json holds an entry for script.txt, project.json or
\* final_video.mp4 respectively.
C29_TrackedStepHasHash ==
    \A step \in {"scriptwriting", "direction", "editing"} :
        step \in Range(load_status(statusFile)) =>
            load_hash_status(integrityFile)[TrackedOutput(step)] # NoEntry

\* C30: a step of the orchestrator removes a file of the project, status.json
\* or integrity.json only when it resets the project: the loaded StepStatus
\* was not empty, a recorded file was missing or modified, and the run is in
\* scheduled mode or the operator answered y.
C30_DeletionOnlyOnReset ==
    [][(/\ tampers' = tampers
        /\ \/ \E path \in Paths : files[path] # Absent /\ files'[path] = Absent
           \/ statusFile.exists /\ ~statusFile'.exists
           \/ integrityFile.exists /\ ~integrityFile'.exists)
       => /\ ResetStep
          /\ loadedStatus' # << >>
          /\ ~recordMatchedAtStart'
          /\ is_manual' => resetDecision' = "confirmed"]_vars

\* C31: in manual mode, when the operator answers the reset prompt with
\* anything but y (compared after lower()), the run ends there: no stage and no gate check was or is
\* invoked, and the project files, status.json, integrity.json and the two
\* in-memory records are left as they were.
C31_DeclineLeavesAllUntouched ==
    [][(pc = "prompt" /\ resetDecision' # "confirmed") =>
          /\ is_manual
          /\ pc' = "exited"
          /\ calls = << >> /\ calls' = << >>
          /\ UNCHANGED <<files, folders, projectDir, statusFile, integrityFile,
                         status, hash_status>>]_vars

\* a manual run on a project with recorded steps ended on a declined reset
C31_Witness ==
    /\ resetDecision = "declined"
    /\ pc = "exited"
    /\ is_manual
    /\ loadedStatus # << >>
    /\ ~recordMatchedAtStart
    /\ calls = << >>
    /\ status = loadedStatus

\* C32: the k-th sleep of a call (k counted from 0) follows the k-th failed
\* attempt; with T the type of that failure and P the policy configured for T,
\* or the system_errors policy when T has none, or the defaults (3, 30, true)
\* when neither is configured, the sleep lasts base_delay(P) * 2^k when P is
\* exponential and base_delay(P) otherwise.
C32_BackoffSchedule ==
    \A k \in 0..(Len(sleeps) - 1) :
        LET T == raisedTypes[k + 1]
            own == retry_policies[T]
            sys == retry_policies["system"]
            base == IF own.present THEN own.base_delay_seconds
                    ELSE IF sys.present THEN sys.base_delay_seconds ELSE 30
            exponential == IF own.present THEN own.exponential_backoff
                           ELSE IF sys.present THEN sys.exponential_backoff ELSE TRUE
        IN  sleeps[k + 1] = IF exponential THEN base * (2 ^ k) ELSE base

\* two failures of a type without a policy of its own were each followed by
\* a sleep of the exponential system_errors policy, and the retry succeeded
C32_Witness ==
    /\ retryResult = "returned"
    /\ Len(raisedTypes) = 2
    /\ raisedTypes[1] = "network" /\ raisedTypes[2] = "network"
    /\ ~retry_policies["network"].present
    /\ retry_policies["system"].present
    /\ retry_policies["system"].exponential_backoff
    /\ sleeps = <<BaseDelay, 2 * BaseDelay>>

\* C38 as stated: under every configuration of the policies, a call of
\* execute_with_retry that has ended has invoked the operation at least once,
\* and if it ended by raising, it raised an exception the operation produced.
C38_CalledAtLeastOnce ==
    retryResult \notin {"idle", "running"} =>
        \/ retryResult = "returned"
        \/ /\ retryResult = "raised"
           /\ raisedTypes # << >>
           /\ reraised \in 1..Len(raisedTypes)

\* the largest max_retries the configuration gives execute_with_retry
RetryCap ==
    CHOOSE n \in 0..(MaxRetriesCap + DefaultMaxRetries) :
        /\ \E t \in RetryableTypes : _get_max_retries(retry_policies, t) = n
        /\ \A t \in RetryableTypes : _get_max_retries(retry_policies, t) <= n

\* C33 as stated: each attempt RetryHandler makes for a stage runs the
\* stage's command once, so the processes launched for the stage are as many
\* as the attempts made, and never more than the retry cap.
C33_OneLaunchPerAttempt ==
    /\ launches <= commandRuns
    /\ subPc # "calling" => launches = commandRuns
    /\ launches <= RetryCap

\* C34: for a project that started empty, completed_steps in memory and
\* completed_steps as status.json holds it are at every moment a prefix of
\* scriptwriting, direction, asset_production, editing, upload: no step is
\* recorded while an earlier one is missing, whatever runs, stage failures,
\* write failures, interruptions and resets came before.
C34_StepsArePrefixOfOrder ==
    /\ IsPrefix(status, Steps)
    /\ IsPrefix(load_status(statusFile), Steps)
    /\ IsPrefix(statusFile.data, Steps)

\* the whole order was recorded although a write of the records failed and
\* a second run was needed
C34_Witness ==
    /\ status = Steps
    /\ load_status(statusFile) = Steps
    /\ writeFails > 0
    /\ runs = 2

\* the gate is on, asset_production is recorded, the plan is in order and an
\* audio or image file it requires is missing or invalid, and the process, if
\* one is running, has not passed the gate
GateBlocked ==
    /\ verify_before_editor
    /\ "asset_production" \in Range(load_status(statusFile))
    /\ _validate_project_file(files) = << >>
    /\ ~RequiredAssetsValid(files)
    /\ pc \in {"exited", "prompt", "scriptwriting", "direction", "asset_production", "gate"}
    /\ pc # "exited" => "asset_production" \in Range(status)

\* C35: a run that loaded asset_production and did not reset the project
\* never launches the narrator or the image director; and while
\* asset_production is recorded, a required audio or image file is missing or
\* invalid and the files stay as they are, the project stays in that
\* condition without a reset: every run goes no further than the gate and
\* launches neither the two asset stages nor the editor.
C35_NoAssetRepairWithoutReset ==
    /\ [](("asset_production" \in Range(loadedStatus)
            /\ resetDecision \notin {"forced", "confirmed"}) =>
              ("narrator" \notin Range(calls) /\ "image_director" \notin Range(calls)))
    /\ [][(GateBlocked /\ files' = files /\ ~ResetStep) =>
             /\ GateBlocked'
             /\ calls' \in {calls, << >>, Append(calls, "gate")}]_vars

\* a second run found asset_production recorded and a required asset
\* missing or invalid, went straight to the gate and ended there
C35_Witness ==
    /\ runs = 2
    /\ pc = "exited"
    /\ exitCode = GateFailureExit
    /\ "asset_production" \in Range(loadedStatus)
    /\ resetDecision = "none"
    /\ calls = <<"gate">>
    /\ gateIssues > 0
    /\ ~assetsValidAtGate
    /\ GateBlocked

\* C37 as stated: a process that has exited with code 0 has upload in its
\* completed_steps; a run that ends before the pipeline is complete (failed
\* setup, no task for the day, declined reset, failed stage, failed gate)
\* exits with another code.
C37_ZeroExitOnlyWhenUploaded ==
    (pc = "exited" /\ exitCode = 0) => "upload" \in Range(status)

\* C36 as stated: whenever scriptwriter.py is launched, the topic it is given
\* is not empty and the target character count it is given is positive.
C36_ScriptwriterGetsTopicAndCount ==
    scriptwriterArgs # NoArgs =>
        /\ Len(scriptwriterArgs.video_topic) > 0
        /\ scriptwriterArgs.target_char_count > 0

\* C39 as stated: a project started as new (not chosen from the incomplete
\* projects) loads an empty completed_steps, and its run launches the
\* scriptwriter with the topic given, whatever the channel folder held.
C39_NewProjectStartsEmpty ==
    startedAs = "new" =>
        /\ setupLoaded \in {NotLoaded, EmptySteps}
        /\ setupPc # "skipped"
        /\ setupPc = "launched" => scriptwriterArgs.video_topic = video_topic

====
